---- MODULE Spec2Model ----
(***************************************************************************)
(* A model of svty: the SSH multi-hop password injector (jumper.py,        *)
(* SSHMultiPass) and the remote command channel (svty.py, Executor).       *)
(*                                                                         *)
(* Byte strings are sequences of one-character strings.  Python indices    *)
(* are kept 0-based in find/rfind results, as in the source.               *)
(***************************************************************************)
EXTENDS Integers, Sequences, FiniteSets, TLC

VARIABLES
    \* ---- SSHMultiPass object state (jumper.py:94-116)
    passwords,      \* self.passwords: function user@host -> password
    allpasswords,   \* self.allpasswords: the keys given at construction
    prompt_buffer,  \* self.prompt_buffer
    add_cr,         \* self.add_cr
    follow_on,      \* self._follow_on
    stopping,       \* self.stopping
    \* ---- the file descriptors SSHMultiPass talks to
    stdout_sink,    \* every byte written to self.stdout
    master_in,      \* every write to the PTY master, in order: [src, data]
    master_q,       \* chunks the child has written, not yet read from the master
    child_script,   \* chunks the child will still write
    child_closed,   \* the child side of the PTY is closed (reads give EIO)
    master_open,    \* master_fd has not been closed by run()
    stdin_q,        \* bytes typed on stdin, not yet read
    stdin_eof,      \* stdin is at end of file
    \* ---- control state
    main_pc,        \* where the thread that called call() is
    worker_pc,      \* where the relay worker thread (run()) is
    readable,       \* local variable of _spawn_with_files
    \* ---- the terminal, the SIGWINCH handler and the child process
    is_a_tty,       \* self.is_a_tty: stdin is a terminal
    tty_raw,        \* stdin is in raw mode (tty.setraw), not yet restored
    old_sigwinch,   \* self.old_sigwinch: the handler saved at spawn, or "None"
    sigwinch,       \* the SIGWINCH handler of the process
    waits,          \* how many times os.waitpid has been performed on the child
    events,         \* the shutdown steps performed so far, in order
    err,            \* the RuntimeError raised by _write_parent, if any
    \* ---- the byte stream of the fragmentation harness
    stream,         \* everything the master will deliver
    pos,            \* how much of it has been passed to _write_parent
    eio_reads,      \* how many reads of the master have failed with EIO
    \* ---- Executor.check_output (svty.py:215-258)
    co_pc,          \* "idle", "polling", "returned", "failed", "raised"
    co_unread,      \* bytes of earlier responses unread when the call began
    co_cmd,         \* cmd of the current call
    co_wire,        \* bytes the remote end has produced, not yet read by pong
    co_stdout,      \* the local variable stdout of the polling loop
    co_result,      \* [stdout, returncode] of the last call
    co_expect,      \* what the remote shell ran for the current call
    co_ignore,      \* the ignore_errors argument of the call, once it is over
    \* ---- starting a session: run() (svty.py:1029-1052), Executor.exec
    \* ---- (svty.py:190-213), and the jumper command (jumper.py:557-590)
    tool,           \* which command runs: "svty" or "jumper"
    uphps,          \* args.uphps is given: the backend is remote
    installed,      \* the programs that exist on the host the command runs on
    run_pc,         \* where run() is
    connection,     \* index in connections of the driver being tried
    not_found,      \* local variable of run()
    child_code,     \* exit code of the child process, once it has exited
    wait_rc,        \* what SSHMultiPass.wait() returned
    exec_result,    \* what Executor.exec returned
    run_result,     \* what run() returned
    \* ---- parse_uphps (jumper.py:496-554)
    hops,           \* the chain the user means: (user, password, host, port)
    encoded_uphps,  \* the argument of parse_uphps
    parsed,         \* what parse_uphps gave: a list, or ValueError
    proxies,        \* the passwords get_proxies gave: a dict, once called
    \* ---- the browser, show_sessions (svty.py:873-1024)
    far,            \* what the listing command of each driver gives just now
    far_changed,    \* the far end has changed since the browser started
    current_session, \* local variable current_session
    sessions,       \* local variable sessions
    session,        \* local variable session
    page_number,    \* local variable page_number
    page_lines,     \* local variable page_lines of the last debug frame
    lines_len,      \* len(lines) before paging, in the last debug frame
    listed,         \* what each list_sessions call of the last home frame got and gave
    key,            \* local variable c: the last key read
    presses,        \* how many keys have been read
    net,            \* right-arrow minus left-arrow presses taken at page 0
    br_pc,          \* where show_sessions is
    br_result,      \* what show_sessions returned
    br_error,       \* the exception that left show_sessions, if any
    rows_drawn,     \* how many rows the last frame wrote lines on
    status_row,     \* the row the last frame wrote the status on, if it did
    \* ---- TMuxWindow.capture (tmux_terminal.py:247-350)
    window,         \* the window: window_width and window_height
    panes,          \* what list_panes gives, each pane with its captured text
    w_lines,        \* what capture returned, once called
    \* ---- close() against new_session() (test/test_terminals.py:32-67)
    t_uphps,        \* args.uphps is not empty: the Executor is remote
    t_stopping,     \* Executor.stopping
    t_jumper_stopping, \* SSHMultiPass.stopping of the Executor's jumper
    t_follow_on,    \* SSHMultiPass._follow_on of the Executor's jumper
    t_master_open,  \* master_fd of the Executor's jumper is open
    t_old_sigwinch, \* SSHMultiPass.old_sigwinch is truthy
    t_worker,       \* where the jumper's worker thread is
    t_child,        \* the process new_session waits for
    t_unread,       \* reads the child has answered and pong has not taken
    t_need,         \* how many reads the echo of the command takes
    runner_pc,      \* where the Runner thread is, in new_session()
    closer_pc,      \* where the main thread is, in close()
    t_error         \* the exception that left new_session() or close()

vars == << passwords, allpasswords, prompt_buffer, add_cr, follow_on, stopping,
           stdout_sink, master_in, master_q, child_script, child_closed,
           master_open, stdin_q, stdin_eof, main_pc, worker_pc, readable, err,
           is_a_tty, tty_raw, old_sigwinch, sigwinch, waits, events,
           stream, pos, eio_reads, co_pc, co_unread, co_cmd, co_wire, co_stdout, co_result,
           co_expect, co_ignore, tool, uphps, installed, run_pc, connection,
           not_found, child_code, wait_rc, exec_result, run_result,
           hops, encoded_uphps, parsed, proxies, far, far_changed, current_session,
           sessions, session, page_number, page_lines, lines_len, listed, key,
           presses, net, br_pc, br_result, br_error, rows_drawn, status_row,
           window, panes, w_lines, t_uphps, t_stopping, t_jumper_stopping,
           t_follow_on, t_master_open, t_old_sigwinch, t_worker, t_child,
           t_unread, t_need, runner_pc, closer_pc, t_error >>

injectorVars == << passwords, allpasswords, prompt_buffer, add_cr, stdout_sink,
                   master_in, err >>
termVars == << is_a_tty, tty_raw, old_sigwinch, sigwinch, waits, events >>
relayVars == << follow_on, stopping, master_q, child_script, child_closed,
                master_open, stdin_q, stdin_eof, main_pc, worker_pc, readable,
                termVars >>
harnessVars == << stream, pos, eio_reads >>
coVars == << co_pc, co_unread, co_cmd, co_wire, co_stdout, co_result, co_expect,
             co_ignore >>
runVars == << tool, uphps, installed, run_pc, connection, not_found, child_code,
              wait_rc, exec_result, run_result >>
parseVars == << hops, encoded_uphps, parsed, proxies >>
browserVars == << far, far_changed, current_session, sessions, session,
                  page_number, page_lines, lines_len, listed, key, presses, net,
                  br_pc, br_result, br_error, rows_drawn, status_row >>
captureVars == << window, panes, w_lines >>
closeVars == << t_uphps, t_stopping, t_jumper_stopping, t_follow_on,
               t_master_open, t_old_sigwinch, t_worker, t_child, t_unread,
               t_need, runner_pc, closer_pc, t_error >>
uiVars == << runVars, parseVars, browserVars, captureVars, closeVars >>
notRunVars == << injectorVars, relayVars, harnessVars, coVars, parseVars,
                 browserVars, captureVars, closeVars >>
notParseVars == << injectorVars, relayVars, harnessVars, coVars, runVars,
                   browserVars, captureVars, closeVars >>
notBrowserVars == << injectorVars, relayVars, harnessVars, coVars, runVars,
                     parseVars, captureVars, closeVars >>
notCaptureVars == << injectorVars, relayVars, harnessVars, coVars, runVars,
                     parseVars, browserVars, closeVars >>
notCloseVars == << injectorVars, relayVars, harnessVars, coVars, runVars,
                   parseVars, browserVars, captureVars >>
execVars == << coVars, uiVars >>

(***************************************************************************)
(* Bytes                                                                   *)
(***************************************************************************)
LF == "\n"
CR == "\r"

Min(S) == CHOOSE x \in S : \A y \in S : x <= y
Max(S) == CHOOSE x \in S : \A y \in S : x >= y

RECURSIVE Concat(_)
Concat(ss) == IF ss = << >> THEN << >> ELSE Head(ss) \o Concat(Tail(ss))

\* SSHMultiPass.PROMPT = b"'s password: "
PROMPT == << "'", "s", " ", "p", "a", "s", "s", "w", "o", "r", "d", ":", " " >>

\* bytes.find(pat): the lowest 0-based index where pat occurs, or -1
find(buf, pat) ==
    LET hits == { i \in 0..(Len(buf) - Len(pat)) :
                    \A j \in 1..Len(pat) : buf[i + j] = pat[j] }
    IN  IF hits = {} THEN -1 ELSE Min(hits)

\* bytes.rfind(ch, start, end): the highest index in start..end-1 holding ch, or -1
rfind(buf, ch, start, end) ==
    LET hits == { i \in start..(end - 1) : buf[i + 1] = ch }
    IN  IF hits = {} THEN -1 ELSE Max(hits)

\* buf[i:] of Python
From(buf, i) == SubSeq(buf, i + 1, Len(buf))

\* data.replace("\n", "\r\n") on data[lo..hi], by halves
RECURSIVE replace_lf_range(_, _, _)
replace_lf_range(data, lo, hi) ==
    IF lo > hi THEN << >>
    ELSE IF lo = hi THEN (IF data[lo] = LF THEN << CR, LF >> ELSE << data[lo] >>)
    ELSE replace_lf_range(data, lo, (lo + hi) \div 2)
         \o replace_lf_range(data, ((lo + hi) \div 2) + 1, hi)

\* data.replace("\n", "\r\n")
replace_lf(data) == replace_lf_range(data, 1, Len(data))

(***************************************************************************)
(* SSHMultiPass._write_parent (jumper.py:387-425)                          *)
(***************************************************************************)
NoError == [raised |-> FALSE, user_host |-> << >>]

\* self.passwords = {k.encode(): v.encode() ...}; allpasswords = its keys
Keys(pws) == DOMAIN pws

\* lines 391-392: the optional LF to CR-LF rewrite
rewrite(data, cr) == IF cr THEN replace_lf(data) ELSE data

\* mutant: the key taken from the start of the buffer, banner lines included
user_host_whole_buffer(buf, iprompt) == SubSeq(buf, 1, iprompt)

\* lines 410-411: the bytes after the last newline before the prompt tail
user_host(buf, iprompt) == SubSeq(buf, rfind(buf, LF, 0, iprompt) + 2, iprompt)

\* mutant: the entry is looked up but not removed
pop_keep(pws, k) == pws

\* line 417: dict.pop(key) of a key that is present
pop(pws, k) == [x \in (DOMAIN pws) \ {k} |-> pws[x]]

\* line 420: the bytes handed to _write_child
password_line(pw) == pw \o << LF >>

\* mutant: the buffer is dropped instead of trimmed
trim_discard(buf, iprompt) == << >>

\* line 425
trim(buf, iprompt) == From(buf, iprompt + Len(PROMPT))

\* mutant: a missing key is answered with an empty password, pop(key, b"")
RECURSIVE scan_default(_, _, _)
scan_default(buf, pws, out) ==
    LET iprompt == find(buf, PROMPT)
    IN  IF iprompt = -1
        THEN [prompt_buffer |-> buf, passwords |-> pws, writes |-> out,
              err |-> NoError]
        ELSE LET uh == SubSeq(buf, rfind(buf, LF, 0, iprompt) + 2, iprompt)
                 pw == IF uh \in DOMAIN pws THEN pws[uh] ELSE << >>
             IN  scan_default(From(buf, iprompt + Len(PROMPT)),
                              [x \in (DOMAIN pws) \ {uh} |-> pws[x]],
                              Append(out, [src |-> "password",
                                           data |-> pw \o << LF >>]))

\* lines 405-425: the while True loop; out collects the _write_child calls
RECURSIVE scan(_, _, _)
scan(buf, pws, out) ==
    LET iprompt == find(buf, PROMPT)
    IN  IF iprompt = -1
        THEN [prompt_buffer |-> buf, passwords |-> pws, writes |-> out,
              err |-> NoError]
        ELSE LET uh == user_host(buf, iprompt)
             IN  IF uh \notin DOMAIN pws
                 THEN [prompt_buffer |-> buf, passwords |-> pws, writes |-> out,
                       err |-> [raised |-> TRUE, user_host |-> uh]]
                 ELSE scan(trim(buf, iprompt), pop(pws, uh),
                           Append(out, [src |-> "password",
                                        data |-> password_line(pws[uh])]))

\* mutant: the test for remaining passwords is left out
scanning_always(pws) == TRUE

\* line 403: scanning happens only while passwords remain
scanning(pws) == DOMAIN pws # {}

\* mutant: the injected passwords are echoed to stdout as well
write_parent_echo(data, buf, pws, cr) ==
    LET d == IF cr THEN replace_lf(data) ELSE data
        r == IF DOMAIN pws # {}
             THEN scan(buf \o d, pws, << >>)
             ELSE [prompt_buffer |-> buf, passwords |-> pws, writes |-> << >>,
                   err |-> NoError]
    IN  [stdout |-> d \o Concat([i \in 1..Len(r.writes) |-> r.writes[i].data]),
         prompt_buffer |-> r.prompt_buffer,
         passwords |-> r.passwords, writes |-> r.writes, err |-> r.err]

\* The whole of _write_parent as a function of the object's state:
\* what goes to stdout, and the new buffer, map, master writes and error.
write_parent(data, buf, pws, cr) ==
    LET d == rewrite(data, cr)
        r == IF scanning(pws)
             THEN scan(buf \o d, pws, << >>)
             ELSE [prompt_buffer |-> buf, passwords |-> pws, writes |-> << >>,
                   err |-> NoError]
    IN  [stdout |-> d, prompt_buffer |-> r.prompt_buffer,
         passwords |-> r.passwords, writes |-> r.writes, err |-> r.err]

\* _write_parent as a step on the object
_write_parent(data) ==
    \E r \in { write_parent(data, prompt_buffer, passwords, add_cr) } :
        /\ stdout_sink' = stdout_sink \o r.stdout
        /\ prompt_buffer' = r.prompt_buffer
        /\ passwords' = r.passwords
        /\ master_in' = master_in \o r.writes
        /\ err' = r.err

(***************************************************************************)
(* The fragmentation harness: one master stream, delivered to              *)
(* _write_parent in reads of any size up to 1024 bytes                     *)
(* (jumper.py:250-257).                                                    *)
(***************************************************************************)
MaxItems == 3
ReadSize == 1024

K1 == << "a" >>
K2 == << "b" >>
Secret(k) == IF k = K1 THEN << "p" >> ELSE << "q" >>

\* what the child may print: a prompt for K1, a prompt for K2, a newline, other text
Items == { K1 \o PROMPT, K2 \o PROMPT, << LF >>, << "x" >> }

RECURSIVE ItemSeqs(_)
ItemSeqs(n) ==
    IF n = 0 THEN { << >> }
    ELSE LET shorter == ItemSeqs(n - 1)
         IN  shorter \cup { Append(s, i) : s \in { t \in shorter : Len(t) = n - 1 },
                                           i \in Items }

Streams == { Concat(s) : s \in ItemSeqs(MaxItems) }

PasswordMaps == { [k \in ks |-> Secret(k)] : ks \in { {}, {K1}, {K1, K2} } }

\* SSHMultiPass.__init__ (jumper.py:94-116) on a map pws
Constructed(pws, cr) ==
    /\ passwords = pws
    /\ allpasswords = Keys(pws)
    /\ prompt_buffer = << >>
    /\ add_cr = cr
    /\ follow_on = "None"
    /\ stopping = FALSE
    /\ err = NoError

RelayIdle ==
    /\ stdout_sink = << >>
    /\ master_in = << >>
    /\ master_q = << >>
    /\ child_script = << >>
    /\ child_closed = FALSE
    /\ master_open = FALSE
    /\ stdin_q = << >>
    /\ stdin_eof = FALSE
    /\ main_pc = "idle"
    /\ worker_pc = "none"
    /\ readable = FALSE
    /\ is_a_tty = FALSE
    /\ tty_raw = FALSE
    /\ old_sigwinch = "None"
    /\ waits = 0
    /\ events = << >>

\* no check_output call has been made
CoIdle ==
    /\ co_pc = "idle"
    /\ co_unread = << >>
    /\ co_cmd = << >>
    /\ co_wire = << >>
    /\ co_stdout = << >>
    /\ co_result = [stdout |-> << >>, returncode |-> 0]
    /\ co_expect = [echoes |-> 0, output |-> << >>, status |-> 0]
    /\ co_ignore = "none"

\* Python's None, and a value that is not None
NoneValue == [none |-> TRUE, value |-> 0]
Value(v) == [none |-> FALSE, value |-> v]

\* no session is being started
RunIdle ==
    /\ tool = "svty"
    /\ uphps = FALSE
    /\ installed = {}
    /\ run_pc = "idle"
    /\ connection = 1
    /\ not_found = 0
    /\ child_code = NoneValue
    /\ wait_rc = NoneValue
    /\ exec_result = NoneValue
    /\ run_result = NoneValue

\* parse_uphps has not been called
ParseIdle ==
    /\ hops = << >>
    /\ encoded_uphps = << >>
    /\ parsed = NoneValue
    /\ proxies = NoneValue

\* the values of the local variable session: None, 0, or a session
NoSession == [kind |-> "None", program |-> "", name |-> ""]
HomeSession == [kind |-> "0", program |-> "", name |-> ""]
Session(program, name) == [kind |-> "session", program |-> program, name |-> name]

\* what show_sessions returns for "new session" (svty.py:1021-1022)
NewSession == [kind |-> "", program |-> "", name |-> ""]

\* show_sessions has not been called
BrowserIdle ==
    /\ far = << >>
    /\ far_changed = FALSE
    /\ current_session = 0
    /\ sessions = << >>
    /\ session = NoSession
    /\ page_number = 0
    /\ page_lines = 1
    /\ lines_len = 0
    /\ listed = << >>
    /\ key = ""
    /\ presses = 0
    /\ net = 0
    /\ br_pc = "idle"
    /\ br_result = NoSession
    /\ br_error = ""
    /\ rows_drawn = 0
    /\ status_row = NoneValue

\* the follow-on styles (jumper.py:80-82)
FOLLOW_ON_NONE == "none"
FOLLOW_ON_PIO == "programmed_io"
FOLLOW_ON_HCI == "human_computer_interaction"

\* TMuxWindow.capture has not been called
CaptureIdle ==
    /\ window = [window_width |-> 0, window_height |-> 0]
    /\ panes = << >>
    /\ w_lines = NoneValue

\* no terminal has been made for a Runner thread
CloseIdle ==
    /\ t_uphps = FALSE
    /\ t_stopping = FALSE
    /\ t_jumper_stopping = FALSE
    /\ t_follow_on = FOLLOW_ON_NONE
    /\ t_master_open = FALSE
    /\ t_old_sigwinch = FALSE
    /\ t_worker = "none"
    /\ t_child = "none"
    /\ t_unread = 0
    /\ t_need = 0
    /\ runner_pc = "idle"
    /\ closer_pc = "idle"
    /\ t_error = ""

UiIdle == RunIdle /\ ParseIdle /\ BrowserIdle /\ CaptureIdle /\ CloseIdle

ExecIdle == CoIdle /\ UiIdle

InitInject ==
    /\ \E pws \in PasswordMaps, cr \in BOOLEAN : Constructed(pws, cr)
    /\ RelayIdle
    /\ sigwinch = "SIG_DFL"
    /\ ExecIdle
    /\ stream \in Streams
    /\ pos = 0
    /\ eio_reads = 0

\* data = os.read(self.master_fd, 1024); self._write_parent(data)
ReadMaster(n) ==
    /\ ~err.raised
    /\ pos + n <= Len(stream)
    /\ _write_parent(SubSeq(stream, pos + 1, pos + n))
    /\ pos' = pos + n
    /\ UNCHANGED << allpasswords, add_cr, stream, eio_reads >>
    /\ UNCHANGED relayVars
    /\ UNCHANGED execVars

\* os.read returns between 1 and 1024 of the bytes that are there
ReadSizes(avail) == 1..(IF avail < ReadSize THEN avail ELSE ReadSize)

NextInject == \E n \in ReadSizes(Len(stream) - pos) : ReadMaster(n)

SpecInject == InitInject /\ [][NextInject]_vars

(***************************************************************************)
(* SSHMultiPass as a running connection: call(), the login relay loop of   *)
(* _spawn_with_files, the worker thread run(), and ping/pong/follow_on/    *)
(* close called by the owner of the object.                                *)
(***************************************************************************)
MaxChildChunks == 2
MaxStdin == 1
MaxPings == 1
MaxEioReads == 2

\* what one read of the master returns in this specification
RelayChunks == { K1 \o PROMPT, K2 \o PROMPT, << "x" >> }

RECURSIVE ChunkSeqs(_)
ChunkSeqs(n) ==
    IF n = 0 THEN { << >> }
    ELSE LET shorter == ChunkSeqs(n - 1)
         IN  shorter \cup { Append(s, c) : s \in { t \in shorter : Len(t) = n - 1 },
                                           c \in RelayChunks }

\* the dispositions SIGWINCH can have before spawn, as signal.signal returns
\* them: the default, or a handler (SIG_IGN is true like a handler)
Handlers == { "SIG_DFL", "handler" }

\* bool(h) of Python: None is false, and so is signal.SIG_DFL, the enum member
\* of value 0 (the test of line 332)
truthy(h) == h \notin { "None", "SIG_DFL" }

\* jumper.run: SSHMultiPass(passwords), add_cr left at its default
Init ==
    /\ \E pws \in PasswordMaps : Constructed(pws, FALSE)
    /\ RelayIdle
    /\ sigwinch \in Handlers
    /\ ExecIdle
    /\ stream = << >>
    /\ pos = 0
    /\ eio_reads = 0

Count(src) == Cardinality({ i \in 1..Len(master_in) : master_in[i].src = src })

\* select.select([self.master_fd, self.stdin], [], [], 0.1): which are readable
master_ready == master_q # << >> \/ child_closed
stdin_ready == stdin_q # << >> \/ stdin_eof

\* os.read(self.master_fd, 1024) raises EIO: the child side is closed and drained
master_eio == master_q = << >> /\ child_closed

\* the reads of the master that failed with EIO, counted up to MaxEioReads
eio_counted(n, eio) == IF eio /\ n < MaxEioReads THEN n + 1 ELSE n

\* _write_child(data) with data read from stdin
stdin_write(data) == << [src |-> "stdin", data |-> data] >>

\* the gate of the login loop (lines 262-263): stdin is looked at only once the
\* master was readable with no passwords left
stdin_gate(rd) == rd

\* the child prints its next chunk, or exits
ChildWrite ==
    /\ main_pc # "idle"
    /\ ~child_closed
    /\ child_script # << >>
    /\ master_q' = Append(master_q, Head(child_script))
    /\ child_script' = Tail(child_script)
    /\ UNCHANGED << follow_on, stopping, child_closed, master_open, stdin_q,
                    stdin_eof, main_pc, worker_pc, readable, termVars >>
    /\ UNCHANGED << injectorVars, harnessVars, execVars >>

ChildExit ==
    /\ main_pc # "idle"
    /\ ~child_closed
    /\ child_closed' = TRUE
    /\ UNCHANGED << follow_on, stopping, master_q, child_script, master_open,
                    stdin_q, stdin_eof, main_pc, worker_pc, readable, termVars >>
    /\ UNCHANGED << injectorVars, harnessVars, execVars >>

\* the user types a key, or stdin ends
UserType ==
    /\ ~stdin_eof
    /\ Len(stdin_q) + Count("stdin") < MaxStdin
    /\ stdin_q' = Append(stdin_q, "k")
    /\ UNCHANGED << follow_on, stopping, master_q, child_script, child_closed,
                    master_open, stdin_eof, main_pc, worker_pc, readable, termVars >>
    /\ UNCHANGED << injectorVars, harnessVars, execVars >>

StdinClose ==
    /\ ~stdin_eof
    /\ stdin_eof' = TRUE
    /\ UNCHANGED << follow_on, stopping, master_q, child_script, child_closed,
                    master_open, stdin_q, main_pc, worker_pc, readable, termVars >>
    /\ UNCHANGED << injectorVars, harnessVars, execVars >>

\* call(argv, follow_on) up to the login loop (lines 165-167, 213-235): the
\* fork, and for a terminal stdin the SIGWINCH handler and raw mode
Call(f) ==
    /\ main_pc = "idle"
    /\ follow_on' = f
    /\ master_open' = TRUE
    /\ readable' = FALSE
    /\ main_pc' = "login"
    /\ \E script \in ChunkSeqs(MaxChildChunks) : child_script' = script
    /\ \E tty \in BOOLEAN :
         /\ is_a_tty' = tty
         /\ tty_raw' = tty
         /\ old_sigwinch' = IF tty THEN sigwinch ELSE old_sigwinch
         /\ sigwinch' = IF tty THEN "_sigwinch" ELSE sigwinch
    /\ UNCHANGED << stopping, master_q, child_closed, stdin_q, stdin_eof, worker_pc,
                    waits, events >>
    /\ UNCHANGED << injectorVars, harnessVars, execVars >>

close_events_restore_first(old) ==
    (IF truthy(old) THEN << "sigwinch" >> ELSE << >>) \o << "stopping" >>

\* close() (lines 329-333): stopping is set, then the saved handler is put back
\* if it is true
close_events(old) ==
    << "stopping" >> \o (IF truthy(old) THEN << "sigwinch" >> ELSE << >>)

close_sigwinch(old, now) == IF truthy(old) THEN old ELSE now

\* The finally clause of run() (lines 316-327), in the main thread or in the
\* worker thread: the terminal attributes go back, signal.signal puts the saved
\* handler back unless it raises ValueError (not the main thread), the master
\* is closed.
finally_sigwinch(in_main) == IF is_a_tty /\ in_main THEN old_sigwinch ELSE sigwinch

finally_events(in_main) ==
    (IF is_a_tty /\ in_main THEN << "sigwinch" >> ELSE << >>) \o << "master_closed" >>

finally_raw == IF is_a_tty THEN FALSE ELSE tty_raw

\* The finally clause of _spawn_with_files (lines 272-279) and what call()
\* does after _spawn returns or raises (lines 168-174).
LeaveLogin(raised) ==
    IF follow_on # FOLLOW_ON_NONE
    THEN \* self.start(): run() goes on in the worker thread; call returns self
         /\ worker_pc' = "run"
         /\ main_pc' = IF raised THEN "raised" ELSE "returned"
         /\ UNCHANGED << master_open, stopping, tty_raw, sigwinch, events >>
    ELSE \* self.run() inline: its loops are skipped, its finally closes the
         \* master; after an error call() goes through close() at once
         /\ master_open' = FALSE
         /\ worker_pc' = worker_pc
         /\ tty_raw' = finally_raw
         /\ IF raised
            THEN /\ main_pc' = "raised"
                 /\ stopping' = TRUE
                 /\ sigwinch' = close_sigwinch(old_sigwinch, finally_sigwinch(TRUE))
                 /\ events' = events \o finally_events(TRUE) \o close_events(old_sigwinch)
            ELSE /\ main_pc' = "wait"
                 /\ stopping' = stopping
                 /\ sigwinch' = finally_sigwinch(TRUE)
                 /\ events' = events \o finally_events(TRUE)

\* one turn of the login loop in which select reports something (lines 236-271)
LoginIteration ==
    /\ main_pc = "login"
    /\ DOMAIN passwords # {} \/ follow_on = FOLLOW_ON_NONE
    /\ master_ready \/ stdin_ready
    /\ LET rd == IF master_ready /\ DOMAIN passwords = {} THEN TRUE ELSE readable
           eio == master_ready /\ master_eio
           got == master_ready /\ ~eio
       IN  \E wp \in { IF got
                       THEN write_parent(Head(master_q), prompt_buffer, passwords, add_cr)
                       ELSE write_parent(<< >>, prompt_buffer, << >>, add_cr) } :
           LET raised == got /\ wp.err.raised
               tostdin == ~eio /\ ~raised /\ stdin_ready /\ stdin_gate(rd)
               eof == tostdin /\ stdin_q = << >>
               fwd == tostdin /\ ~eof
           IN  /\ readable' = rd
               /\ eio_reads' = eio_counted(eio_reads, eio)
               /\ master_q' = IF got THEN Tail(master_q) ELSE master_q
               /\ stdout_sink' = stdout_sink \o wp.stdout
               /\ prompt_buffer' = wp.prompt_buffer
               /\ passwords' = IF got THEN wp.passwords ELSE passwords
               /\ err' = IF got THEN wp.err ELSE err
               /\ master_in' = master_in \o wp.writes
                                \o (IF fwd THEN stdin_write(stdin_q) ELSE << >>)
               /\ stdin_q' = IF fwd THEN << >> ELSE stdin_q
               /\ IF eio \/ raised \/ eof
                  THEN LeaveLogin(raised)
                  ELSE UNCHANGED << main_pc, worker_pc, master_open, stopping,
                                    tty_raw, sigwinch, events >>
    /\ UNCHANGED << allpasswords, add_cr, follow_on, child_script, child_closed,
                    stdin_eof, is_a_tty, old_sigwinch, waits >>
    /\ UNCHANGED << stream, pos, execVars >>

\* the loop condition is false: no passwords left and a follow-on was asked for
LoginComplete ==
    /\ main_pc = "login"
    /\ ~(DOMAIN passwords # {} \/ follow_on = FOLLOW_ON_NONE)
    /\ LeaveLogin(FALSE)
    /\ UNCHANGED << follow_on, master_q, child_script, child_closed, stdin_q,
                    stdin_eof, readable, is_a_tty, old_sigwinch, waits >>
    /\ UNCHANGED << injectorVars, harnessVars, execVars >>

\* call() without follow-on: wait() reaps the child, then close() (lines 169-174)
Wait ==
    /\ main_pc = "wait"
    /\ child_closed
    /\ main_pc' = "returned"
    /\ waits' = waits + 1
    /\ stopping' = TRUE
    /\ sigwinch' = close_sigwinch(old_sigwinch, sigwinch)
    /\ events' = events \o << "waited" >> \o close_events(old_sigwinch)
    /\ UNCHANGED << follow_on, master_q, child_script, child_closed, master_open,
                    stdin_q, stdin_eof, worker_pc, readable, is_a_tty, tty_raw,
                    old_sigwinch >>
    /\ UNCHANGED << injectorVars, harnessVars, execVars >>

\* the owner of a connection returned by call(): it has the object
connected == main_pc = "returned" /\ follow_on # FOLLOW_ON_NONE /\ ~stopping

valid_follow_on_any(value) == TRUE

\* assert value in [FOLLOW_ON_PIO, FOLLOW_ON_HCI] (lines 369-370)
valid_follow_on(value) == value \in { FOLLOW_ON_PIO, FOLLOW_ON_HCI }

\* follow_on(value) (lines 363-377), called by whoever holds the object after
\* call() has returned; the mode it is in is not looked at
FollowOn(value) ==
    /\ main_pc = "returned"
    /\ valid_follow_on(value)
    /\ follow_on # value
    /\ follow_on' = value
    /\ UNCHANGED << stopping, master_q, child_script, child_closed, master_open,
                    stdin_q, stdin_eof, main_pc, worker_pc, readable, termVars >>
    /\ UNCHANGED << injectorVars, harnessVars, execVars >>

\* ping(data) (lines 347-353)
Ping ==
    /\ connected
    /\ master_open
    /\ Count("ping") < MaxPings
    /\ master_in' = Append(master_in, [src |-> "ping", data |-> << "c", LF >>])
    /\ UNCHANGED << passwords, allpasswords, prompt_buffer, add_cr, stdout_sink, err >>
    /\ UNCHANGED << relayVars, harnessVars, execVars >>

\* pong(size) (lines 355-361) when there is something to read
Pong ==
    /\ connected
    /\ master_open
    /\ master_q # << >>
    /\ master_q' = Tail(master_q)
    /\ UNCHANGED << follow_on, stopping, child_script, child_closed, master_open,
                    stdin_q, stdin_eof, main_pc, worker_pc, readable, termVars >>
    /\ UNCHANGED << injectorVars, harnessVars, execVars >>

\* wait() (lines 335-345) as Executor.exec calls it, after follow_on(HCI) and
\* before close() (svty.py:208-210): waitpid returns when the child has exited
OwnerWait ==
    /\ connected
    /\ follow_on = FOLLOW_ON_HCI
    /\ child_closed
    /\ main_pc' = "exec_close"
    /\ waits' = waits + 1
    /\ events' = Append(events, "waited")
    /\ UNCHANGED << follow_on, stopping, master_q, child_script, child_closed,
                    master_open, stdin_q, stdin_eof, worker_pc, readable, is_a_tty,
                    tty_raw, old_sigwinch, sigwinch >>
    /\ UNCHANGED << injectorVars, harnessVars, execVars >>

\* close() (lines 329-333), called by Executor.close (svty.py:267-271), at the
\* end of Executor.exec or on its own
Close ==
    /\ connected \/ (main_pc = "exec_close" /\ ~stopping)
    /\ stopping' = TRUE
    /\ sigwinch' = close_sigwinch(old_sigwinch, sigwinch)
    /\ events' = events \o close_events(old_sigwinch)
    /\ UNCHANGED << follow_on, master_q, child_script, child_closed, master_open,
                    stdin_q, stdin_eof, main_pc, worker_pc, readable, is_a_tty,
                    tty_raw, old_sigwinch, waits >>
    /\ UNCHANGED << injectorVars, harnessVars, execVars >>

worker_continues_ignoring_stop(stop, mode) == mode # FOLLOW_ON_NONE

\* while not self.stopping and self._follow_on != FOLLOW_ON_NONE (line 283)
worker_continues(stop, mode) == ~stop /\ mode # FOLLOW_ON_NONE

\* run() at the top of its loops finds the HCI loop condition true and goes into
\* select (lines 283-289); in programmed IO it sleeps and looks again
WorkerEnter ==
    /\ worker_pc = "run"
    /\ worker_continues(stopping, follow_on)
    /\ follow_on = FOLLOW_ON_HCI
    /\ worker_pc' = "select"
    /\ UNCHANGED << follow_on, stopping, master_q, child_script, child_closed,
                    master_open, stdin_q, stdin_eof, main_pc, readable, termVars >>
    /\ UNCHANGED << injectorVars, harnessVars, execVars >>

\* the rest of that turn of the HCI loop (lines 289-315): select returns what is
\* readable, or nothing after 0.1 s; the mode and stopping are looked at again
\* only at the top of the loop
WorkerRelay ==
    /\ worker_pc = "select"
    /\ LET eio == master_ready /\ master_eio
           got == master_ready /\ ~eio
       IN  \E wp \in { IF got
                       THEN write_parent(Head(master_q), prompt_buffer, passwords, add_cr)
                       ELSE write_parent(<< >>, prompt_buffer, << >>, add_cr) } :
           LET raised == got /\ wp.err.raised
               fwd == ~eio /\ ~raised /\ stdin_ready /\ stdin_q # << >>
           IN  /\ eio_reads' = eio_counted(eio_reads, eio)
               /\ master_q' = IF got THEN Tail(master_q) ELSE master_q
               /\ stdout_sink' = stdout_sink \o wp.stdout
               /\ prompt_buffer' = wp.prompt_buffer
               /\ passwords' = IF got THEN wp.passwords ELSE passwords
               /\ err' = IF got THEN wp.err ELSE err
               /\ master_in' = master_in \o wp.writes
                                \o (IF fwd THEN stdin_write(stdin_q) ELSE << >>)
               /\ stdin_q' = IF fwd THEN << >> ELSE stdin_q
               \* an error leaves run() through its finally (lines 316-327)
               /\ IF raised
                  THEN /\ worker_pc' = "done"
                       /\ master_open' = FALSE
                       /\ tty_raw' = finally_raw
                       /\ sigwinch' = finally_sigwinch(FALSE)
                       /\ events' = events \o finally_events(FALSE)
                  ELSE /\ worker_pc' = "run"
                       /\ UNCHANGED << master_open, tty_raw, sigwinch, events >>
    /\ UNCHANGED << allpasswords, add_cr, follow_on, stopping, child_script,
                    child_closed, stdin_eof, main_pc, readable, is_a_tty,
                    old_sigwinch, waits >>
    /\ UNCHANGED << stream, pos, execVars >>

\* run() finds its loop condition false and leaves through its finally
\* (lines 283, 316-327)
WorkerStop ==
    /\ worker_pc = "run"
    /\ ~worker_continues(stopping, follow_on)
    /\ worker_pc' = "done"
    /\ master_open' = FALSE
    /\ tty_raw' = finally_raw
    /\ sigwinch' = finally_sigwinch(FALSE)
    /\ events' = events \o finally_events(FALSE)
    /\ UNCHANGED << follow_on, stopping, master_q, child_script, child_closed,
                    stdin_q, stdin_eof, main_pc, readable, is_a_tty, old_sigwinch,
                    waits >>
    /\ UNCHANGED << injectorVars, harnessVars, execVars >>

Next ==
    \/ \E f \in { FOLLOW_ON_NONE, FOLLOW_ON_PIO, FOLLOW_ON_HCI } : Call(f)
    \/ ChildWrite
    \/ ChildExit
    \/ UserType
    \/ StdinClose
    \/ LoginIteration
    \/ LoginComplete
    \/ Wait
    \/ \E v \in { FOLLOW_ON_NONE, FOLLOW_ON_PIO, FOLLOW_ON_HCI } : FollowOn(v)
    \/ Ping
    \/ Pong
    \/ OwnerWait
    \/ Close
    \/ WorkerEnter
    \/ WorkerRelay
    \/ WorkerStop

Spec == Init /\ [][Next]_vars

\* The threads keep being scheduled: the login loop and wait() of the calling
\* thread, and the loops of the worker thread.  Nothing is assumed of the
\* child, of the user or of the owner of the connection.
Fairness ==
    /\ WF_vars(LoginIteration)
    /\ WF_vars(LoginComplete)
    /\ WF_vars(Wait)
    /\ WF_vars(WorkerEnter)
    /\ WF_vars(WorkerRelay)
    /\ WF_vars(WorkerStop)

FairSpec == Spec /\ Fairness

\* C3: no byte read from stdin is written to the PTY master while the
\* password map is non-empty, in the login loop and in the relay loop of run().
C3_StdinGated ==
    [][ (Len(master_in') > Len(master_in)
            /\ master_in'[Len(master_in')].src = "stdin")
          => DOMAIN passwords' = {} ]_vars

(***************************************************************************)
(* Properties of the connection, checked under Spec and FairSpec           *)
(***************************************************************************)
\* how many times a shutdown step has been performed
Times(e) == Cardinality({ i \in 1..Len(events) : events[i] = e })

\* the relay worker thread is alive
worker_running == worker_pc \in { "run", "select" }

\* C11: in a relay without follow-on, once the last password has been written,
\* stdin input that is waiting is read and forwarded to the master (or the
\* child ends, or the loop is left), whatever the child prints afterwards,
\* nothing included.
C11_StdinForwarded ==
    (/\ follow_on = FOLLOW_ON_NONE
     /\ main_pc = "login"
     /\ allpasswords # {}
     /\ DOMAIN passwords = {}
     /\ stdin_q # << >>)
        ~> (stdin_q = << >> \/ child_closed \/ main_pc # "login")

\* C12: call() with a follow-on returns normally, and starts the worker, only
\* with the password map empty; an EIO before that does not give the caller
\* the connection object.
C12_ReturnsLoggedIn ==
    (main_pc = "returned" /\ worker_pc # "none") => DOMAIN passwords = {}

C14_WorkerIdleInPIO ==
    [][ (worker_pc = "select" /\ worker_pc' # "select"
            /\ follow_on = FOLLOW_ON_PIO)
          => (master_q' = master_q /\ master_in' = master_in) ]_vars

\* C15: in the follow-on modes the master is closed only after close() has set
\* stopping, however often the mode is switched.
C15_MasterClosedAfterStopping ==
    [][ (master_open /\ ~master_open' /\ follow_on # FOLLOW_ON_NONE)
          => stopping ]_vars

\* C16: in every run that has come to close(), waitpid has been performed on
\* the child exactly once.
C16_WaitedOnce == stopping => waits = 1

Rank(e) ==
    CASE e = "stopping" -> 1
      [] e = "sigwinch" -> 2
      [] e = "master_closed" -> 3
      [] e = "waited" -> 4

Before(a, b) ==
    \A i, j \in 1..Len(events) : (events[i] = a /\ events[j] = b) => i < j

C18_HandlerRestored ==
    (stopping /\ is_a_tty /\ worker_pc \in { "none", "done" })
        => sigwinch = old_sigwinch

\* C19: a terminal that spawn has put into raw mode gets its attributes back
\* once call() has raised or close() has been called, in every follow-on mode.
C19_RawModeRestored ==
    (tty_raw /\ (stopping \/ main_pc = "raised")) ~> ~tty_raw

C34_PromptLeftToUser ==
    ~(/\ err.raised
      /\ allpasswords = { K1 }
      /\ err.user_host = K2)

\* C36: once a read of the master has failed with EIO no further read of it
\* is tried, in the login loop and in the worker's loop (a read after that
\* one can only fail with EIO again).
C36_NoReadAfterEIO == eio_reads <= 1

\* C39: when call() with a follow-on has raised during login, in the end no
\* worker is running and the master is closed, although the caller, who has
\* no object, calls nothing more.
C39_NothingLeftAfterError ==
    (main_pc = "raised" /\ follow_on \in { FOLLOW_ON_PIO, FOLLOW_ON_HCI })
        ~> (~worker_running /\ ~master_open)

(***************************************************************************)
(* Executor.check_output on the remote backend (svty.py:176-258): a        *)
(* command line is pinged to the remote shell loop, and pong is polled     *)
(* until the bytes read end with the sentinel line.                        *)
(***************************************************************************)
MaxOutItems == 2
\* a call is begun with at most this many bytes of earlier responses unread
MaxUnread == 7

\* self.token = "HI" (svty.py:183)
token == << "H", "I" >>

\* args = ["TZ=UTC", "LANG=en_GB.UTF-8"] + args (svty.py:218)
EnvArgs ==
    << << "T", "Z", "=", "U", "T", "C" >>,
       << "L", "A", "N", "G", "=", "e", "n", "_", "G", "B", ".", "U", "T", "F",
          "-", "8" >> >>

\* the characters shlex.quote leaves alone, among those used here
SafeChars == { "T", "Z", "=", "U", "C", "L", "A", "N", "G", "e", "n", "_", "B",
               ".", "F", "-", "8", "c", "h", "o", "f", "a", "b", "H", "I" }

RECURSIVE quote_inner(_)
quote_inner(a) ==
    IF a = << >> THEN << >>
    ELSE (IF Head(a) = "'" THEN << "'", "\"", "'", "\"", "'" >> ELSE << Head(a) >>)
         \o quote_inner(Tail(a))

\* shlex.quote(a) (svty.py:219)
quote(a) ==
    IF a = << >> THEN << "'", "'" >>
    ELSE IF \A i \in 1..Len(a) : a[i] \in SafeChars THEN a
    ELSE << "'" >> \o quote_inner(a) \o << "'" >>

RECURSIVE join(_)
join(words) ==
    IF words = << >> THEN << >>
    ELSE IF Len(words) = 1 THEN Head(words)
    ELSE Head(words) \o << " " >> \o join(Tail(words))

\* cmd = " ".join(shlex.quote(a) for a in args) + "\n" (svty.py:218-220)
command_line(args) ==
    join([i \in 1..(Len(EnvArgs) + Len(args)) |-> quote((EnvArgs \o args)[i])])
        \o << LF >>

\* str.replace("\r\n", "\n") on t[lo..hi], by halves: a CR goes when an LF
\* follows it in t
RECURSIVE replace_crlf_range(_, _, _)
replace_crlf_range(t, lo, hi) ==
    IF lo > hi THEN << >>
    ELSE IF lo = hi
         THEN (IF t[lo] = CR /\ lo < Len(t) /\ t[lo + 1] = LF THEN << >> ELSE << t[lo] >>)
    ELSE replace_crlf_range(t, lo, (lo + hi) \div 2)
         \o replace_crlf_range(t, ((lo + hi) \div 2) + 1, hi)

\* str.replace("\r\n", "\n") (svty.py:228)
replace_crlf(t) == replace_crlf_range(t, 1, Len(t))

Whitespace == { " ", LF, CR, "\t" }

\* str.lstrip() (svty.py:233)
RECURSIVE lstrip(_)
lstrip(t) == IF t # << >> /\ Head(t) \in Whitespace THEN lstrip(Tail(t)) ELSE t

RECURSIVE rstrip(_)
rstrip(t) ==
    IF t # << >> /\ t[Len(t)] \in Whitespace
    THEN rstrip(SubSeq(t, 1, Len(t) - 1))
    ELSE t

\* str.startswith(prefix) (svty.py:238)
startswith(t, prefix) ==
    Len(t) >= Len(prefix) /\ SubSeq(t, 1, Len(prefix)) = prefix

\* t.split("\n", 1)[1] where t holds a newline (svty.py:239)
after_first_line(t) == From(t, find(t, << LF >>) + 1)

\* while stdout.startswith(cmd): stdout = stdout.split("\n", 1)[1] (svty.py:238-239)
RECURSIVE strip_echo(_, _)
strip_echo(t, cmd) ==
    IF startswith(t, cmd) THEN strip_echo(after_first_line(t), cmd) ELSE t

DigitChars == << "0", "1", "2", "3", "4", "5", "6", "7", "8", "9" >>
DigitValue(c) == (CHOOSE i \in 1..10 : DigitChars[i] = c) - 1
IsDigit(c) == \E i \in 1..10 : DigitChars[i] = c

\* int(text): whether it parses, and the value (svty.py:240)
is_int(t) ==
    LET d == rstrip(lstrip(t))
    IN  d # << >> /\ \A i \in 1..Len(d) : IsDigit(d[i])

RECURSIVE digits_value(_)
digits_value(d) ==
    IF d = << >> THEN 0
    ELSE 10 * digits_value(SubSeq(d, 1, Len(d) - 1)) + DigitValue(d[Len(d)])

int(t) == digits_value(rstrip(lstrip(t)))

\* the 0-based places of the newlines of t
Newlines(t) == { i \in 0..(Len(t) - 1) : t[i + 1] = LF }

body_untrimmed(text, cmd) == strip_echo(text, cmd)

\* the body part of the response: lstrip, then the echo copies go (svty.py:233-239)
body(text, cmd) == strip_echo(lstrip(text), cmd)

\* lines 228-240 on the bytes read: stdout.rsplit("\n", 3) must give four
\* parts, and the second must be an integer
parse(read, cmd) ==
    LET t == replace_crlf(read)
        nl == Newlines(t)
    IN  IF Cardinality(nl) < 3 THEN [ok |-> FALSE, stdout |-> << >>, returncode |-> 0]
        ELSE LET p3 == Max(nl)
                 p2 == Max(nl \ {p3})
                 p1 == Max(nl \ {p3, p2})
                 code == SubSeq(t, p1 + 2, p2)
             IN  IF ~is_int(code)
                 THEN [ok |-> FALSE, stdout |-> << >>, returncode |-> 0]
                 ELSE [ok |-> TRUE, stdout |-> body(SubSeq(t, 1, p1), cmd),
                       returncode |-> int(code)]

\* stdout[-len(self.token) - 2:] == self.token + "\r\n" (svty.py:227)
at_sentinel(read) ==
    LET n == Len(token) + 2
    IN  Len(read) >= n /\ SubSeq(read, Len(read) - n + 1, Len(read)) = token \o << CR, LF >>

\* lines 253-255: CalledProcessError unless the exit code is 0 or the
\* ignore_errors predicate accepts
must_raise(returncode, ignore) == returncode # 0 /\ ignore # "accepts"

\* decimal digits of an exit status, as the shell prints $?
RECURSIVE decimal(_)
decimal(n) ==
    IF n < 10 THEN << DigitChars[n + 1] >>
    ELSE decimal(n \div 10) \o << DigitChars[(n % 10) + 1] >>

RECURSIVE copies(_, _)
copies(n, t) == IF n = 0 THEN << >> ELSE t \o copies(n - 1, t)

\* What the remote end sends back for one command line (svty.py:184): the
\* echoed line (0 to 2 copies, svty.py:235-236), the output of the command,
\* then echo -e "\n$?\n<token>"; the remote terminal turns LF into CR-LF.
response(cmd, echoes, output, status) ==
    replace_lf(copies(echoes, cmd) \o output
               \o << LF >> \o decimal(status) \o << LF >> \o token \o << LF >>)

EchoCopies == { 0, 1, 2 }
Statuses == { 0, 127 }
ArgLists == { << << "e", "c", "h", "o" >>, << "f", "o", "o" >> >> }

\* pieces of command output: a word, a line end (which is whitespace too), and
\* text that happens to equal the token
OutItems == { << "f", "o", "o" >>, << LF >>, token }

RECURSIVE OutSeqs(_)
OutSeqs(n) ==
    IF n = 0 THEN { << >> }
    ELSE LET shorter == OutSeqs(n - 1)
         IN  shorter \cup { Append(s, i) : s \in { t \in shorter : Len(t) = n - 1 },
                                           i \in OutItems }

Outputs == { Concat(s) : s \in OutSeqs(MaxOutItems) }

NoResult == [stdout |-> << >>, returncode |-> 0]

\* Executor.__init__ with uphps (svty.py:176-188): the connection is logged in
\* and in programmed IO, the remote shell loop is waiting for a line
InitExec ==
    /\ Constructed([k \in {} |-> << >>], FALSE)
    /\ stdout_sink = << >>
    /\ master_in = << >>
    /\ master_q = << >>
    /\ child_script = << >>
    /\ child_closed = FALSE
    /\ master_open = TRUE
    /\ stdin_q = << >>
    /\ stdin_eof = FALSE
    /\ main_pc = "returned"
    /\ worker_pc = "run"
    /\ readable = FALSE
    /\ is_a_tty = FALSE
    /\ tty_raw = FALSE
    /\ old_sigwinch = "None"
    /\ sigwinch = "SIG_DFL"
    /\ waits = 0
    /\ events = << >>
    /\ ExecIdle
    /\ stream = << >>
    /\ pos = 0
    /\ eio_reads = 0

\* check_output up to the ping (svty.py:215-223), and the remote end running
\* the command: co_cmd is the line written to the master by ping, co_wire
\* gains what the remote end answers
CheckOutput(args, echoes, output, status) ==
    /\ co_pc # "polling"
    /\ Len(co_wire) <= MaxUnread
    /\ co_unread' = co_wire
    /\ co_cmd' = command_line(args)
    /\ co_wire' = co_wire \o response(command_line(args), echoes, output, status)
    /\ co_stdout' = << >>
    /\ co_result' = NoResult
    /\ co_expect' = [echoes |-> echoes, output |-> output, status |-> status]
    /\ co_ignore' = "none"
    /\ co_pc' = "polling"
    /\ UNCHANGED << injectorVars, relayVars, harnessVars, uiVars >>

\* what the ignore_errors argument does with a non-zero exit code: there is
\* none, or it is a predicate that accepts or rejects (svty.py:254)
IgnoreErrors == { "none", "accepts", "rejects" }

\* one turn of the polling loop (svty.py:224-241) and, when the sentinel is
\* seen, the rest of check_output (svty.py:249-258)
PollPong(n) ==
    /\ co_pc = "polling"
    /\ \E read \in { co_stdout \o SubSeq(co_wire, 1, n) } :
         /\ co_stdout' = read
         /\ co_wire' = From(co_wire, n)
         /\ IF ~at_sentinel(read)
            THEN co_pc' = "polling" /\ co_result' = co_result /\ co_ignore' = co_ignore
            ELSE \E r \in { parse(read, co_cmd) }, ignore \in IgnoreErrors :
                   /\ co_result' = [stdout |-> r.stdout, returncode |-> r.returncode]
                   /\ co_ignore' = ignore
                   /\ co_pc' = IF ~r.ok THEN "raised"
                               ELSE IF must_raise(r.returncode, ignore)
                                    THEN "failed" ELSE "returned"
    /\ UNCHANGED << co_unread, co_cmd, co_expect >>
    /\ UNCHANGED << injectorVars, relayVars, harnessVars, uiVars >>

NextExec ==
    \/ \E args \in ArgLists, echoes \in EchoCopies, output \in Outputs,
          status \in Statuses : CheckOutput(args, echoes, output, status)
    \/ \E n \in ReadSizes(Len(co_wire)) : PollPong(n)

SpecExec == InitExec /\ [][NextExec]_vars

(***************************************************************************)
(* Properties of the command channel, checked under SpecExec               *)
(***************************************************************************)
\* the call is over: it returned, raised CalledProcessError, or failed on the
\* bytes it read
returned == co_pc \in { "returned", "failed" }

\* what the remote end sent for the command of the call in progress
own_response ==
    response(co_cmd, co_expect.echoes, co_expect.output, co_expect.status)

\* the bytes read by the call are exactly the response to its command
whole == co_stdout = own_response

\* C4 as stated: when the bytes read are the echo copies, the output, the
\* status line and the sentinel line, the text handed back is the output
\* with its leading whitespace trimmed, and the exit code is the status.
C4_OutputTrimmed ==
    (co_pc # "polling" /\ co_pc # "idle" /\ whole)
        => /\ returned
           /\ co_result.stdout = lstrip(co_expect.output)
           /\ co_result.returncode = co_expect.status

\* C4 amended: when the bytes read are the echo copies, the output, the
\* status line and the sentinel line, the exit code is the integer of the
\* status line and the text handed back is the output with every echo copy
\* removed; leading whitespace is trimmed before the echo copies are looked
\* for, so the output's own leading whitespace goes only when no echo copy
\* precedes it.
C4_OutputAndExitCode ==
    (co_pc # "polling" /\ co_pc # "idle" /\ whole)
        => /\ returned
           /\ co_result.stdout = IF co_expect.echoes = 0
                                 THEN lstrip(co_expect.output)
                                 ELSE co_expect.output
           /\ co_result.returncode = co_expect.status

\* check_output(["echo", "foo"]) has returned, through an echoed command line
C4_Witness ==
    /\ co_pc = "returned"
    /\ whole
    /\ co_expect.echoes >= 1
    /\ co_expect.output = << "f", "o", "o", LF >>
    /\ co_result = [stdout |-> << "f", "o", "o", LF >>, returncode |-> 0]

\* C5: with the calls made one after the other, a call that returns has read
\* the status and sentinel lines of its own command: what it read is the
\* response to its command, whatever the output and however pong split the
\* stream, and nothing of that response is left for the next call.
C5_ReadsOwnResponse == returned => (whole /\ co_wire = << >>)

\* C21: a call that is over has raised CalledProcessError exactly when the exit
\* code of its command is not 0 and there is no ignore_errors predicate or the
\* predicate returns false; in every other case it has returned.
C21_RaisesOnFailure ==
    (co_pc \notin { "idle", "polling" })
        => /\ co_pc \in { "failed", "returned" }
           /\ (co_pc = "failed") = (co_expect.status # 0 /\ co_ignore # "accepts")

(***************************************************************************)
(* Properties of the password injector, checked under SpecInject           *)
(***************************************************************************)
\* what has been passed to _write_parent so far, and the read in progress
fed == SubSeq(stream, 1, pos)
chunk == SubSeq(stream, pos + 1, pos')
InitialMap == [k \in allpasswords |-> Secret(k)]
Written == [i \in 1..Len(master_in) |-> master_in[i].data]

\* the places (0-based) where the prompt tail occurs in s, in increasing order
PromptStarts(s) ==
    { i \in 0..(Len(s) - Len(PROMPT)) : \A j \in 1..Len(PROMPT) : s[i + j] = PROMPT[j] }

RECURSIVE Ascending(_)
Ascending(S) == IF S = {} THEN << >> ELSE << Min(S) >> \o Ascending(S \ {Min(S)})

\* the bytes between the last newline before position i and position i
KeyAfterNewline(s, i) ==
    LET j == Max({0} \cup { m \in 1..i : s[m] = LF })
    IN  SubSeq(s, j + 1, i)

PromptKeys(s) ==
    LET at == Ascending(PromptStarts(s))
    IN  [n \in 1..Len(at) |-> KeyAfterNewline(s, at[n])]

WellFormed(s) ==
    LET ks == PromptKeys(s)
    IN  /\ \A n \in 1..Len(ks) : ks[n] \in allpasswords
        /\ \A m, n \in 1..Len(ks) : m # n => ks[m] # ks[n]

scanned == prompt_buffer \o rewrite(chunk, add_cr)
consumed == allpasswords \ DOMAIN passwords
reading == pos' > pos

\* the bytes between position i and whichever comes last before it: a newline
\* or the end of the previous prompt tail
KeyOfPrompt(s, i) ==
    LET j == Max({0} \cup { m \in 1..i : s[m] = LF }
                     \cup { q + Len(PROMPT) : q \in { r \in PromptStarts(s) : r < i } })
    IN  SubSeq(s, j + 1, i)

KeysOfPrompts(s) ==
    LET at == Ascending(PromptStarts(s))
    IN  [n \in 1..Len(at) |-> KeyOfPrompt(s, at[n])]

\* ks holds a key of the map that was consumed already: before the read, or
\* by an earlier prompt of the same buffer
HasDuplicate(ks, before) ==
    \E n \in 1..Len(ks) :
        /\ ks[n] \in allpasswords
        /\ \/ ks[n] \in before
           \/ \E m \in 1..(n - 1) : ks[m] = ks[n]

\* C6 as stated: once the master has delivered a second prompt for a key of the
\* map, an error has been raised, whichever reads the prompts arrived in.
C6_DuplicateAlwaysAnError ==
    HasDuplicate(KeysOfPrompts(rewrite(fed, add_cr)), {}) => err.raised

\* C6 as amended: a prompt for a consumed key raises the RuntimeError of a
\* missing password, and is not answered, when the read that finds it was
\* entered with a non-empty password map; a read entered with an empty map
\* passes it through without an error and without a write to the master.
C6_DuplicateWhileScanning ==
    [][ reading =>
          /\ (DOMAIN passwords # {}
                /\ \E b \in { scanned } : \E ks \in { KeysOfPrompts(b) } :
                        HasDuplicate(ks, consumed))
                => /\ err'.raised
                   /\ err'.user_host \notin DOMAIN passwords'
          /\ (DOMAIN passwords = {})
                => /\ ~err'.raised
                   /\ master_in' = master_in
          /\ \A i, j \in 1..Len(master_in') :
                i # j => master_in'[i].data # master_in'[j].data ]_vars

C6_Witness ==
    /\ err.raised
    /\ err.user_host \in allpasswords
    /\ DOMAIN passwords # {}
    /\ Len(master_in) > 0

\* C7: a prompt for a user@host absent from a non-empty password map makes
\* _write_parent fail; nothing is written to the master for it and the map
\* keeps its entries.
C7_MissingPassword ==
    [][ reading =>
          /\ DOMAIN passwords # {}
                => \E b \in { scanned } : \E at \in { find(b, PROMPT) } :
                     (at # -1 /\ KeyAfterNewline(b, at) \notin DOMAIN passwords)
                        => /\ err'.raised
                           /\ err'.user_host = KeyAfterNewline(b, at)
                           /\ master_in' = master_in
                           /\ passwords' = passwords
          /\ err'.raised
                => /\ err'.user_host \notin DOMAIN passwords'
                   /\ Len(master_in') - Len(master_in)
                        = Cardinality(DOMAIN passwords)
                            - Cardinality(DOMAIN passwords') ]_vars

C7_Witness ==
    /\ err.raised
    /\ err.user_host \notin allpasswords
    /\ DOMAIN passwords # {}
    /\ passwords = InitialMap
    /\ master_in = << >>

\* C8: the password writes and the outcome (error or not) of a stream are those
\* of the same stream delivered in one read, however it was split.
C8_SplitIndependent ==
    (pos = Len(stream) \/ err.raised) =>
        LET one == write_parent(stream, << >>, InitialMap, add_cr)
        IN  /\ err.raised = one.err.raised
            /\ master_in = one.writes

AfterLastPrompt(s) == From(s, Max(PromptStarts(s)) + Len(PROMPT))

connections == << "tmux", "screen", "$SHELL" >>

\* exit codes of a child that exited normally
ExitCodes == 0..255

\* what os.waitpid reports for a child that exited normally with code c
exit_status_indication(c) == c * 256

\* rc = (exit_status_indication >> 8) & 0x7f (jumper.py:342)
rc(status) == (status \div 256) % 128

\* SSHMultiPass.wait (jumper.py:335-345) for a child that exited with code c
wait(c) == rc(exit_status_indication(c))

\* The program of a driver can be started. On the remote backend the command
\* line goes to a shell: "$SHELL" (sent unquoted, quote=False) is the shell
\* itself; on the local backend subprocess.call looks for a file of that name.
exists(program) ==
    \/ program \in installed
    \/ uphps /\ program = "$SHELL"

Hosts == { {}, { "tmux" }, { "screen" }, { "tmux", "screen" } }

\* svty's run() has the answer "new session" of the browser, or the jumper
\* command is about to call SSHMultiPass.call
InitRun ==
    /\ Constructed([k \in {} |-> << >>], FALSE)
    /\ RelayIdle
    /\ sigwinch = "SIG_DFL"
    /\ stream = << >>
    /\ pos = 0
    /\ eio_reads = 0
    /\ CoIdle
    /\ tool \in { "svty", "jumper" }
    /\ uphps \in BOOLEAN
    /\ tool = "jumper" => uphps
    /\ installed \in Hosts
    /\ run_pc = IF tool = "svty" THEN "new_session" ELSE "call"
    /\ connection = 1
    /\ not_found = 0
    /\ child_code = NoneValue
    /\ wait_rc = NoneValue
    /\ exec_result = NoneValue
    /\ run_result = NoneValue
    /\ ParseIdle
    /\ BrowserIdle
    /\ CaptureIdle
    /\ CloseIdle

\* if not_found == len(connections) (svty.py:1049)
none_found(n, total) == n = total

\* One turn of the loop over connections (svty.py:1044-1050) on the local
\* backend: new_session -> call -> Executor.exec -> subprocess.call
\* (svty.py:211-213), which raises FileNotFoundError when there is no such
\* program; run() counts it and goes to the next driver.
NewSessionLocal ==
    /\ run_pc = "new_session"
    /\ ~uphps
    /\ IF exists(connections[connection])
       THEN /\ run_pc' = "child"
            /\ UNCHANGED << connection, not_found >>
       ELSE /\ not_found' = not_found + 1
            /\ IF connection < Len(connections)
               THEN connection' = connection + 1 /\ run_pc' = run_pc
               ELSE /\ connection' = connection
                    /\ run_pc' = IF none_found(not_found + 1, Len(connections))
                                 THEN "raised" ELSE "returned"
    /\ UNCHANGED << tool, uphps, installed, child_code, wait_rc, exec_result,
                    run_result >>
    /\ UNCHANGED notRunVars

\* The same turn on the remote backend: Executor.exec writes "exec <program>
\* ..." to the remote shell, reads the echo, switches to HCI and blocks in
\* jumper.wait() (svty.py:191-209). Nothing is raised here, whether the
\* program exists or not.
NewSessionRemote ==
    /\ run_pc = "new_session"
    /\ uphps
    /\ run_pc' = "child"
    /\ UNCHANGED << tool, uphps, installed, connection, not_found, child_code,
                    wait_rc, exec_result, run_result >>
    /\ UNCHANGED notRunVars

\* jumper: SSHMultiPass.call without follow-on has spawned ssh and relays
\* (jumper.py:150-168)
JumperCall ==
    /\ run_pc = "call"
    /\ run_pc' = "child"
    /\ UNCHANGED << tool, uphps, installed, connection, not_found, child_code,
                    wait_rc, exec_result, run_result >>
    /\ UNCHANGED notRunVars

\* The child (the program, or the ssh whose remote shell ran exec <program>)
\* exits normally with code c. A remote shell that cannot exec the program
\* ends with 127.
ChildExits(c) ==
    /\ run_pc = "child"
    /\ (tool = "svty" /\ ~exists(connections[connection])) => c = 127
    /\ child_code' = Value(c)
    /\ run_pc' = "exited"
    /\ UNCHANGED << tool, uphps, installed, connection, not_found, wait_rc,
                    exec_result, run_result >>
    /\ UNCHANGED notRunVars

\* Executor.exec comes back and run() returns what new_session returned
\* (svty.py:1046): locally the value of subprocess.call (svty.py:213); on the
\* remote backend jumper.wait() is called, its value dropped, and exec ends
\* without a return statement (svty.py:209-210).
ExecReturns ==
    /\ run_pc = "exited"
    /\ tool = "svty"
    /\ wait_rc' = IF uphps THEN Value(wait(child_code.value)) ELSE wait_rc
    /\ exec_result' = IF uphps THEN NoneValue ELSE child_code
    /\ run_result' = exec_result'
    /\ run_pc' = "returned"
    /\ UNCHANGED << tool, uphps, installed, connection, not_found, child_code >>
    /\ UNCHANGED notRunVars

\* jumper: call() returns self.wait() (jumper.py:168), run() returns it
\* (jumper.py:575) and main() hands it to sys.exit
JumperReturns ==
    /\ run_pc = "exited"
    /\ tool = "jumper"
    /\ wait_rc' = Value(wait(child_code.value))
    /\ run_result' = wait_rc'
    /\ run_pc' = "returned"
    /\ UNCHANGED << tool, uphps, installed, connection, not_found, child_code,
                    exec_result >>
    /\ UNCHANGED notRunVars

NextRun ==
    \/ NewSessionLocal
    \/ NewSessionRemote
    \/ JumperCall
    \/ \E c \in ExitCodes : ChildExits(c)
    \/ ExecReturns
    \/ JumperReturns

SpecRun == InitRun /\ [][NextRun]_vars

(***************************************************************************)
(* Properties of starting a session, checked under SpecRun                 *)
(***************************************************************************)
\* C22: when Executor.exec has come back, on either backend, what it returned
\* is the exit code of the command it ran.
C22_ExecReturnsExitCode ==
    (tool = "svty" /\ run_pc = "returned" /\ ~child_code.none)
        => exec_result = child_code

\* C23: what SSHMultiPass.wait() returned is the exit code of the child, for
\* every exit code 0..255, and the jumper command returns that value.
C23_WaitReturnsExitCode ==
    ~wait_rc.none
        => /\ wait_rc = child_code
           /\ tool = "jumper" => run_result = child_code

\* the first driver, in the order Tmux, Screen, Null, whose program exists
first_existing == Min({ i \in 1..Len(connections) : exists(connections[i]) })

\* C25: when run() has come back from a new_session, the driver it used is the
\* first one, in the order Tmux, Screen, Null, whose program exists; the
\* drivers before it raised FileNotFoundError and were counted.
C25_FirstExistingDriver ==
    (tool = "svty" /\ run_pc = "returned" /\ ~child_code.none)
        => /\ exists(connections[connection])
           /\ connection = first_existing
           /\ not_found = connection - 1

(***************************************************************************)
(* parse_uphps (jumper.py:496-554): the chain of User[:Password]@Host[:Port]*)
(* entries separated by "+", with "++" for a "+" inside a password.         *)
(***************************************************************************)
PLUS == "+"

\* re.compile(r"\+(?!\+)") (jumper.py:505): the first place (1-based) of s
\* holding a "+" that is not followed by another "+", or 0
uphp_splitter_match(s) ==
    LET hits == { i \in 1..Len(s) :
                    s[i] = PLUS /\ (i = Len(s) \/ s[i + 1] # PLUS) }
    IN  IF hits = {} THEN 0 ELSE Min(hits)

\* uphp_splitter.split(encoded_uphps) (jumper.py:508)
RECURSIVE uphp_splitter_split(_)
uphp_splitter_split(s) ==
    LET i == uphp_splitter_match(s)
    IN  IF i = 0 THEN << s >>
        ELSE << SubSeq(s, 1, i - 1) >> \o uphp_splitter_split(SubSeq(s, i + 1, Len(s)))

\* up[1].replace("++", "+") (jumper.py:527)
RECURSIVE unescape(_)
unescape(s) ==
    IF Len(s) < 2 THEN s
    ELSE IF s[1] = PLUS /\ s[2] = PLUS THEN << PLUS >> \o unescape(SubSeq(s, 3, Len(s)))
    ELSE << s[1] >> \o unescape(Tail(s))

\* os.environ["USER"] (jumper.py:516)
USER == << "m", "e" >>

\* socket.gethostbyname (jumper.py:544): the names that resolve, and to what
Resolves == { << "h" >>, << "g" >> }
gethostbyname(name) == << "1", "0", "." >> \o name

DefaultPort == << "2", "2" >>

\* one turn of the loop of parse_uphps (jumper.py:509-551) on the piece uphp:
\* the tuple appended, or ok = FALSE for a ValueError
parse_uphp(uphp) ==
    LET at == rfind(uphp, "@", 0, Len(uphp))
        up == IF at = -1 THEN USER ELSE SubSeq(uphp, 1, at)
        hp == IF at = -1 THEN uphp ELSE From(uphp, at + 1)
        colon == find(up, << ":" >>)
        equals == find(up, << "=" >>)
        user == IF colon # -1 THEN SubSeq(up, 1, colon)
                ELSE IF equals # -1 THEN SubSeq(up, 1, equals)
                ELSE up
        password == IF colon # -1 THEN unescape(From(up, colon + 1))
                    ELSE IF equals # -1 THEN From(up, equals + 1)
                    ELSE << >>
        hcolon == find(hp, << ":" >>)
        host == IF hcolon = -1 THEN hp ELSE SubSeq(hp, 1, hcolon)
        port == IF hcolon = -1 THEN DefaultPort ELSE From(hp, hcolon + 1)
    IN  IF host \notin Resolves \/ ~is_int(port)
        THEN [ok |-> FALSE, uphp |-> << >>]
        ELSE [ok |-> TRUE,
              uphp |-> << user, password, gethostbyname(host), int(port) >>]

RECURSIVE parse_pieces(_)
parse_pieces(pieces) ==
    IF pieces = << >> THEN [ok |-> TRUE, uphps |-> << >>]
    ELSE LET first == parse_uphp(Head(pieces))
             rest == parse_pieces(Tail(pieces))
         IN  IF first.ok /\ rest.ok
             THEN [ok |-> TRUE, uphps |-> << first.uphp >> \o rest.uphps]
             ELSE [ok |-> FALSE, uphps |-> << >>]

\* parse_uphps(encoded_uphps): the list of tuples, or ok = FALSE for ValueError
parse_uphps(encoded) == parse_pieces(uphp_splitter_split(encoded))

\* How a chain is written on the command line: "use '++' in passwords"
\* (jumper.py:653), the port left out when it is 22, the password when empty.
RECURSIVE escape(_)
escape(s) ==
    IF s = << >> THEN << >>
    ELSE (IF Head(s) = PLUS THEN << PLUS, PLUS >> ELSE << Head(s) >>) \o escape(Tail(s))

encode_uphp(h) ==
    h.user \o (IF h.keyfile # << >> THEN << "=" >> \o h.keyfile
               ELSE IF h.password = << >> THEN << >>
               ELSE << ":" >> \o escape(h.password))
        \o << "@" >> \o h.host
        \o (IF h.port = 22 THEN << >> ELSE << ":" >> \o decimal(h.port))

RECURSIVE encode_uphps(_)
encode_uphps(hs) ==
    IF hs = << >> THEN << >>
    ELSE IF Len(hs) = 1 THEN encode_uphp(hs[1])
    ELSE encode_uphp(hs[1]) \o << PLUS >> \o encode_uphps(Tail(hs))

MaxHops == 2

Users == { << "u" >>, << "a" >> }
Passwords == { << >>, << "s" >>, << "s", PLUS, "c" >>, << PLUS >>, << "s", PLUS >> }
Ports == { 22, 8022 }
KeyFiles == { << >>, << "/", "k" >> }

\* an entry gives a password, a key file, or neither
Hop == { h \in [user : Users, password : Passwords, keyfile : KeyFiles,
                host : Resolves, port : Ports] :
           h.keyfile = << >> \/ h.password = << >> }
Chains == UNION { [1..n -> Hop] : n \in 1..MaxHops }

\* the command line holds the encoding of a chain
InitParse ==
    /\ Constructed([k \in {} |-> << >>], FALSE)
    /\ RelayIdle
    /\ sigwinch = "SIG_DFL"
    /\ stream = << >>
    /\ pos = 0
    /\ eio_reads = 0
    /\ CoIdle
    /\ RunIdle
    /\ BrowserIdle
    /\ CaptureIdle
    /\ CloseIdle
    /\ hops \in Chains
    /\ encoded_uphps = encode_uphps(hops)
    /\ parsed = NoneValue
    /\ proxies = NoneValue

\* jumper.run (jumper.py:558): uphps = parse_uphps(args.uphps)
ParseUphps ==
    /\ parsed = NoneValue
    /\ parsed' = Value(parse_uphps(encoded_uphps))
    /\ UNCHANGED << hops, encoded_uphps, proxies >>
    /\ UNCHANGED notParseVars

\* uphp[0] + "@" + uphp[2] (jumper.py:448)
user_at_host(uphp) == uphp[1] \o << "@" >> \o uphp[3]

\* if uphp[1] (jumper.py:448)
has_password(uphp) == uphp[2] # << >>

\* {uphp[0] + "@" + uphp[2]: uphp[1] for uphp in uphps if uphp[1]}
\* (jumper.py:448): a dict, in which a later entry of the same key replaces
\* the earlier one
RECURSIVE password_dict(_)
password_dict(ts) ==
    IF ts = << >> THEN [k \in {} |-> << >>]
    ELSE LET before == password_dict(SubSeq(ts, 1, Len(ts) - 1))
             last == ts[Len(ts)]
         IN  IF has_password(last)
             THEN [k \in DOMAIN before \cup { user_at_host(last) } |->
                      IF k = user_at_host(last) THEN last[2] ELSE before[k]]
             ELSE before

\* jumper.run (jumper.py:564): get_ssh_with_proxies(uphps, ...) calls
\* get_proxies (jumper.py:457), whose second result is the password dict
GetProxies ==
    /\ ~parsed.none
    /\ parsed.value.ok
    /\ proxies = NoneValue
    /\ proxies' = Value(password_dict(parsed.value.uphps))
    /\ UNCHANGED << hops, encoded_uphps, parsed >>
    /\ UNCHANGED notParseVars

NextParse ==
    \/ ParseUphps
    \/ GetProxies

SpecParse == InitParse /\ [][NextParse]_vars

\* the tuples parse_uphps is to give for a chain
RECURSIVE expected_uphps(_)
expected_uphps(hs) ==
    IF hs = << >> THEN << >>
    ELSE << << hs[1].user, hs[1].password, gethostbyname(hs[1].host), hs[1].port >> >>
            \o expected_uphps(Tail(hs))

\* C30: a chain whose passwords hold "+" written as "++" parses to the hops of
\* the chain: the "++" does not split the chain and the password recorded has
\* one "+" for it.
C30_EscapedPlus ==
    (~parsed.none /\ \A i \in DOMAIN hops : hops[i].keyfile = << >>)
        => /\ parsed.value.ok
           /\ parsed.value.uphps = expected_uphps(hops)

\* the tuples get_proxies was given
Given == parsed.value.uphps

\* C31: for every chain, the dict of get_proxies holds, for each hop with a
\* non-empty password, that hop's own password under "user@host", and no
\* key for a hop whose password is empty.
C31_PasswordPerHop ==
    ~proxies.none
        => \A i \in DOMAIN Given :
             IF Given[i][2] # << >>
             THEN /\ user_at_host(Given[i]) \in DOMAIN proxies.value
                  /\ proxies.value[user_at_host(Given[i])] = Given[i][2]
             ELSE user_at_host(Given[i]) \notin DOMAIN proxies.value

\* C40: an entry written user=keyfile@host puts nothing in the password
\* dict: no key of the dict holds the path of the key file.
C40_KeyFileNotAPassword ==
    ~proxies.none
        => \A i \in DOMAIN hops :
             hops[i].keyfile # << >>
                 => \A k \in DOMAIN proxies.value : proxies.value[k] # hops[i].keyfile

(***************************************************************************)
(* The browser: show_sessions (svty.py:873-1024) over the drivers' list of  *)
(* sessions (TMuxTerminal.list_sessions, ScreenTerminal.list_sessions,      *)
(* NullTerminal.list_sessions).                                             *)
(***************************************************************************)
CommandNotFound ==
    << "c", "o", "m", "m", "a", "n", "d", " ", "n", "o", "t", " ", "f",
       "o", "u", "n", "d" >>

ErrorConnectingTo ==
    << "e", "r", "r", "o", "r", " ", "c", "o", "n", "n", "e", "c", "t",
       "i", "n", "g", " ", "t", "o", " " >>

NoServerRunningOn ==
    << "n", "o", " ", "s", "e", "r", "v", "e", "r", " ", "r", "u", "n",
       "n", "i", "n", "g", " ", "o", "n" >>

FailedToConnect ==
    << "f", "a", "i", "l", "e", "d", " ", "t", "o", " ", "c", "o", "n",
       "n", "e", "c", "t", " ", "t", "o", " ", "s", "e", "r", "v", "e",
       "r" >>

NoSocketsFoundIn ==
    << "N", "o", " ", "S", "o", "c", "k", "e", "t", "s", " ", "f", "o",
       "u", "n", "d", " ", "i", "n" >>

NoScreenSessionFound ==
    << "N", "o", " ", "s", "c", "r", "e", "e", "n", " ", "s", "e", "s",
       "s", "i", "o", "n", " ", "f", "o", "u", "n", "d" >>

ThereIsAScreenOn ==
    << "T", "h", "e", "r", "e", " ", "i", "s", " ", "a", " ", "s", "c",
       "r", "e", "e", "n", " ", "o", "n" >>

ThereAreScreensOn ==
    << "T", "h", "e", "r", "e", " ", "a", "r", "e", " ", "s", "c", "r",
       "e", "e", "n", "s", " ", "o", "n" >>

\* str.startswith(prefixes) with a tuple of prefixes
startswith_any(text, prefixes) == \E prefix \in prefixes : startswith(text, prefix)

\* the drivers of connections, by their place
TMUX == 1
SCREEN == 2
NULL == 3

\* unsafe_msgs of list_sessions (tmux_terminal.py:97, screen_terminal.py:52)
unsafe_msgs(driver) ==
    IF driver = TMUX THEN { ErrorConnectingTo, NoServerRunningOn, FailedToConnect }
    ELSE { NoSocketsFoundIn, NoScreenSessionFound }

\* safe_msgs as list_sessions passes them down to check_output
\* (tmux_terminal.py:95 through lister: none; screen_terminal.py:50)
safe_msgs(driver) ==
    IF driver = TMUX THEN {} ELSE { ThereIsAScreenOn, ThereAreScreensOn }

\* the ignore_errors predicate the drivers give to Executor.check_output
\* (tmux_terminal.py:58, screen_terminal.py:44)
ignore_errors(driver, stdout, returncode) ==
    returncode = 1 /\ startswith_any(stdout, safe_msgs(driver))

program_missing_on_127(returncode, output) == returncode = 127

\* e.returncode == 127 and e.output.rfind("command not found") != -1
program_missing(returncode, output) ==
    returncode = 127 /\ find(output, CommandNotFound) # -1

Missing == [kind |-> "missing", sessions |-> << >>]
Failed == [kind |-> "failed", sessions |-> << >>]
Sessions(ss) == [kind |-> "sessions", sessions |-> ss]

\* the sessions a listing names, as objects of the driver
SessionsOf(driver, names) ==
    [i \in 1..Len(names) |-> Session(connections[driver], names[i])]

\* list_sessions of a driver (tmux_terminal.py:93-109, screen_terminal.py:48-87,
\* null_terminal.py:35-36) when its listing command has the outcome o: the
\* list returned, FileNotFoundError ("missing") or CalledProcessError
\* ("failed"). Executor.check_output raises unless the exit code is 0 or the
\* predicate accepts (svty.py:253-255); locally a program that does not exist
\* makes Popen raise FileNotFoundError.
list_sessions(driver, o) ==
    IF driver = NULL THEN Sessions(<< >>)
    ELSE IF o.spawned = FALSE THEN Missing
    ELSE IF must_raise(o.returncode,
                       IF ignore_errors(driver, o.output, o.returncode)
                       THEN "accepts" ELSE "rejects")
         THEN IF program_missing(o.returncode, o.output) THEN Missing
              ELSE IF o.returncode = 1 /\ startswith_any(o.output, unsafe_msgs(driver))
                   THEN Sessions(<< >>)
              ELSE Failed
         ELSE IF o.output = << >> THEN Sessions(<< >>)
              ELSE Sessions(SessionsOf(driver, o.names))

\* What the listing command of a driver can give: whether the program could be
\* started at all (locally), its exit code, its output, and the session names
\* the output lists.
Listing(spawned, returncode, output, names) ==
    [spawned |-> spawned, returncode |-> returncode, output |-> output, names |-> names]

TmuxListings ==
    { Listing(TRUE, 0, << >>, << >>),
      Listing(TRUE, 0, << "{", "}" >>, << "t1", "t2" >>),
      Listing(TRUE, 1, NoServerRunningOn \o << " ", "/" >>, << >>),
      Listing(TRUE, 127, << "t", ":", " " >> \o CommandNotFound, << >>),
      Listing(TRUE, 127, << "x" >>, << >>),
      Listing(TRUE, 1, << "x" >>, << >>),
      Listing(FALSE, 0, << >>, << >>) }

ScreenListings ==
    { Listing(TRUE, 0, ThereIsAScreenOn \o << ":" >>, << "s1" >>),
      Listing(TRUE, 1, ThereIsAScreenOn \o << ":" >>, << "s1" >>),
      Listing(TRUE, 1, NoSocketsFoundIn \o << " ", "/" >>, << >>),
      Listing(TRUE, 127, << "s", ":", " " >> \o CommandNotFound, << >>),
      Listing(TRUE, 1, << "x" >>, << >>),
      Listing(FALSE, 0, << >>, << >>) }

FarEnds == { << t, sc >> : t \in TmuxListings, sc \in ScreenListings }

MaxKeys == 3
MaxLines == 3
PageLines == { 2, 3 }

\* curses.wrapper(show_sessions, connections, log_handler) (svty.py:1037):
\* the locals of show_sessions before its loop (svty.py:889-893)
InitBrowser ==
    /\ Constructed([k \in {} |-> << >>], FALSE)
    /\ RelayIdle
    /\ sigwinch = "SIG_DFL"
    /\ stream = << >>
    /\ pos = 0
    /\ eio_reads = 0
    /\ CoIdle
    /\ RunIdle
    /\ ParseIdle
    /\ CaptureIdle
    /\ CloseIdle
    /\ far \in FarEnds
    /\ far_changed = FALSE
    /\ current_session = 0
    /\ sessions = << >>
    /\ session = NoSession
    /\ page_number = 0
    /\ page_lines = 2
    /\ lines_len = 0
    /\ listed = << >>
    /\ key = ""
    /\ presses = 0
    /\ net = 0
    /\ br_pc = "frame"
    /\ br_result = NoSession
    /\ br_error = ""
    /\ rows_drawn = 0
    /\ status_row = NoneValue

\* the far end changes between two frames: sessions come and go, a server
\* stops, a program is removed; one driver's listing changes at a time
FarEndChange ==
    /\ br_pc = "getch"
    /\ ~far_changed
    /\ \E f \in FarEnds :
         /\ f # far
         /\ f[TMUX] = far[TMUX] \/ f[SCREEN] = far[SCREEN]
         /\ far' = f
    /\ far_changed' = TRUE
    /\ UNCHANGED << current_session, sessions, session, page_number, page_lines,
                    lines_len, listed, key, presses, net, br_pc, br_result,
                    br_error, rows_drawn, status_row >>
    /\ UNCHANGED notBrowserVars

\* connection.list_sessions() for the driver at place d (svty.py:927)
listing_of(d) ==
    [outcome |-> IF d = NULL THEN Listing(TRUE, 0, << >>, << >>) ELSE far[d],
     result |-> list_sessions(d, IF d = NULL THEN Listing(TRUE, 0, << >>, << >>)
                                 ELSE far[d])]

\* sessions.extend(...) over the drivers 1..n that returned a list
\* (svty.py:925-929)
RECURSIVE extended(_, _)
extended(ls, n) ==
    IF n = 0 THEN << >>
    ELSE extended(ls, n - 1)
           \o (IF ls[n].result.kind = "sessions" THEN ls[n].result.sessions ELSE << >>)

some_driver_missing(n, total) == n > 0

\* if not_found == len(connections) (svty.py:930)
every_driver_missing(n, total) == n = total

\* pages = (len(lines) + page_lines - 1) // page_lines (svty.py:912, 956)
pages_of(len, pl) == (len + pl - 1) \div pl

session_first(ss, current) == ss[1]

\* sessions[current_session - 1] (svty.py:946), sessions counted from 1 here
session_at(ss, current) == ss[current]

\* lines[(page_number - 1) * page_lines:] (svty.py:916, 963): how many lines
\* are left to draw
lines_from(len, page, pl) ==
    IF page = 0 THEN Min({ len, pl }) ELSE Max({ len - (page - 1) * pl, 0 })

\* lines[-page_lines:] (svty.py:975): how many lines are left to draw
lines_last(len, pl) == Min({ len, pl })

\* whether the rows of a frame are all on the screen
fits(n, pl) == n <= pl

\* The content rows and the status row are written with addstr (svty.py:983-
\* 991): row i of the lines at row i of the screen, the status below the last.
\* curses raises its error for a row past the last row of the screen, and for
\* a full row written on the last one, so more than page_lines lines end
\* show_sessions with curses.error.
Draw(n, pl) ==
    IF fits(n, pl)
    THEN /\ br_pc' = "getch"
         /\ br_error' = br_error
         /\ rows_drawn' = pl
         /\ status_row' = Value(pl)
    ELSE /\ br_pc' = "raised"
         /\ br_error' = "curses.error"
         /\ rows_drawn' = pl + 1
         /\ status_row' = NoneValue

\* The body of the loop up to the key read (svty.py:894-993): one frame is
\* drawn on a screen of page_lines + 1 rows. On the home page at page 0 the
\* drivers are asked for their sessions, and an exception of a driver other
\* than FileNotFoundError leaves show_sessions; the debug pages clamp
\* page_number; list_windows of the debug page of a session can fail as any
\* command can.
Frame ==
    /\ br_pc = "frame"
    /\ \E pl \in PageLines :
         /\ page_lines' = pl
         /\ IF current_session = 0 /\ page_number > 0
            THEN \E len \in 0..MaxLines :
                   /\ lines_len' = len
                   /\ page_number' = Min({ pages_of(len, pl), page_number })
                   /\ Draw(lines_from(len, Min({ pages_of(len, pl), page_number }), pl), pl)
                   /\ UNCHANGED << sessions, session, listed >>
            ELSE IF current_session = 0
            THEN LET all == [d \in 1..Len(connections) |-> listing_of(d)]
                     failed == { d \in 1..Len(connections) : all[d].result.kind = "failed" }
                     upto == IF failed = {} THEN Len(connections) ELSE Min(failed)
                     count == Cardinality({ d \in 1..upto : all[d].result.kind = "missing" })
                 IN  /\ listed' = SubSeq(all, 1, upto)
                     /\ sessions' = extended(all, upto)
                     /\ IF failed # {}
                        THEN /\ br_pc' = "raised"
                             /\ br_error' = "CalledProcessError"
                             /\ UNCHANGED << session, rows_drawn, status_row >>
                        ELSE IF every_driver_missing(count, Len(connections))
                        THEN /\ br_pc' = "raised"
                             /\ br_error' = "FileNotFoundError"
                             /\ UNCHANGED << session, rows_drawn, status_row >>
                        ELSE /\ session' = HomeSession
                             /\ Draw(1 + Len(extended(all, upto)), pl)
                     /\ UNCHANGED << page_number, lines_len >>
            ELSE /\ session' = session_at(sessions, current_session)
                 /\ IF page_number > 0
                    THEN \/ /\ br_pc' = "raised"
                            /\ br_error' = "CalledProcessError"
                            /\ UNCHANGED << page_number, lines_len, rows_drawn,
                                            status_row >>
                         \/ \E len \in 1..MaxLines :
                              /\ lines_len' = len
                              /\ page_number' = Min({ pages_of(len, pl), page_number })
                              /\ Draw(lines_from(len, Min({ pages_of(len, pl), page_number }), pl), pl)
                    ELSE /\ \E captured \in { 0, MaxLines } :
                              Draw(lines_last(captured, pl), pl)
                         /\ UNCHANGED << page_number, lines_len >>
                 /\ UNCHANGED << sessions, listed >>
    /\ UNCHANGED << far, far_changed, current_session, key, presses, net, br_result >>
    /\ UNCHANGED notBrowserVars

KeyCodes == { "q", "Q", "ENTER", "KEY_LEFT", "KEY_RIGHT", "KEY_NPAGE", "KEY_PPAGE", "KEY_RESIZE" }

right_no_wrap(current, n) == current + 1

left_no_wrap(current, n) == IF current = 0 THEN 0 ELSE current - 1

\* KEY_LEFT at page 0 (svty.py:1003-1007)
left(current, n) == IF current = 0 THEN n ELSE current - 1

\* KEY_RIGHT at page 0 (svty.py:1009-1013)
right(current, n) == IF current = n THEN 0 ELSE current + 1

page_up_unguarded(page) == page - 1

\* KEY_PPAGE (svty.py:1016-1018)
page_up(page) == IF page # 0 THEN page - 1 ELSE page

\* the return statements of show_sessions (svty.py:1019-1024)
returned_for(sess) ==
    IF sess.kind = "session" THEN sess
    ELSE IF sess.kind = "0" THEN NewSession
    ELSE NoSession

\* c = stdscr.getch() and what is done with the key (svty.py:994-1024)
Key(c) ==
    /\ br_pc = "getch"
    /\ presses < MaxKeys
    /\ key' = c
    /\ presses' = presses + 1
    /\ LET at0 == page_number = 0
           quit == c \in { "q", "Q" }
           done == quit \/ (c = "ENTER" /\ at0)
           sess == IF quit THEN NoSession ELSE session
       IN  /\ session' = sess
           /\ br_pc' = IF done THEN "returned" ELSE "frame"
           /\ br_result' = IF done THEN returned_for(sess) ELSE br_result
           /\ current_session' =
                IF c = "KEY_LEFT" /\ at0 THEN left(current_session, Len(sessions))
                ELSE IF c = "KEY_RIGHT" /\ at0 THEN right(current_session, Len(sessions))
                ELSE current_session
           /\ net' = IF c = "KEY_LEFT" /\ at0 THEN net - 1
                     ELSE IF c = "KEY_RIGHT" /\ at0 THEN net + 1
                     ELSE net
           /\ page_number' = IF c = "KEY_NPAGE" THEN page_number + 1
                             ELSE IF c = "KEY_PPAGE" THEN page_up(page_number)
                             ELSE page_number
    /\ UNCHANGED << far, far_changed, sessions, page_lines, lines_len, listed,
                    br_error, rows_drawn, status_row >>
    /\ UNCHANGED notBrowserVars

NextBrowser ==
    \/ FarEndChange
    \/ Frame
    \/ \E c \in KeyCodes : Key(c)

SpecBrowser == InitBrowser /\ [][NextBrowser]_vars

----------------------------------------------------------------------------
\* Properties of the browser

\* the drivers whose listing command was run and ended with a failure
FailedListings ==
    { d \in DOMAIN listed : /\ d \in { TMUX, SCREEN }
                            /\ listed[d].outcome.spawned
                            /\ listed[d].outcome.returncode # 0 }

no_server(d, o) ==
    /\ o.returncode = 1
    /\ \E prefix \in unsafe_msgs(d) :
         /\ Len(prefix) <= Len(o.output)
         /\ SubSeq(o.output, 1, Len(prefix)) = prefix

command_not_found(o) ==
    /\ o.returncode = 127
    /\ \E k \in 1..(Len(o.output) - Len(CommandNotFound) + 1) :
         SubSeq(o.output, k, k + Len(CommandNotFound) - 1) = CommandNotFound

accepted_by_screen(d, o) ==
    /\ d = SCREEN
    /\ o.returncode = 1
    /\ \E prefix \in safe_msgs(SCREEN) :
         /\ Len(prefix) <= Len(o.output)
         /\ SubSeq(o.output, 1, Len(prefix)) = prefix

\* C24 as stated: a failed listing command of Tmux or Screen gives
\* FileNotFoundError for exit code 127 with "command not found" in the output,
\* the empty list for exit code 1 with a no-server prefix, and
\* CalledProcessError in every other case.
C24_EveryOtherFailureRaises ==
    \A d \in FailedListings :
        LET o == listed[d].outcome
            result == listed[d].result
        IN  IF command_not_found(o) THEN result = Missing
            ELSE IF no_server(d, o) THEN result = Sessions(<< >>)
            ELSE result = Failed

\* C24, amended: as above, except that Screen's exit code 1 with output
\* starting "There is a screen on" or "There are screens on" is no failure:
\* the output is parsed as the listing it is, and nothing is raised.
C24_ListSessionsMapping ==
    \A d \in FailedListings :
        LET o == listed[d].outcome
            result == listed[d].result
        IN  IF command_not_found(o) THEN result = Missing
            ELSE IF no_server(d, o) THEN result = Sessions(<< >>)
            ELSE IF accepted_by_screen(d, o)
                 THEN result = Sessions(SessionsOf(SCREEN, o.names))
            ELSE result = Failed

C24_Witness ==
    /\ SCREEN \in FailedListings
    /\ accepted_by_screen(SCREEN, listed[SCREEN].outcome)
    /\ listed[SCREEN].result.kind = "sessions"
    /\ Len(listed[SCREEN].result.sessions) = 1
    /\ TMUX \in FailedListings
    /\ listed[TMUX].result = Missing

\* what driver d gives to the frame: its sessions, or nothing when it raised
\* FileNotFoundError
given_by(d) ==
    IF listing_of(d).result.kind = "sessions" THEN listing_of(d).result.sessions
    ELSE << >>

\* C26: a frame of the home page at page 0 makes sessions the lists of Tmux,
\* Screen and Null, in this order, leaving out the drivers that raised
\* FileNotFoundError, and show_sessions raises FileNotFoundError exactly when
\* all three drivers raised it. (A driver's CalledProcessError ends the frame
\* before sessions is used.)
C26_HomeFrameRebuilds ==
    [][ (br_pc = "frame" /\ current_session = 0 /\ page_number = 0)
          => /\ (\A d \in 1..3 : listing_of(d).result.kind # "failed")
                  => sessions' = given_by(TMUX) \o given_by(SCREEN) \o given_by(NULL)
             /\ (br_pc' = "raised" /\ br_error' = "FileNotFoundError")
                  = (\A d \in 1..3 : listing_of(d).result.kind = "missing")
      ]_vars

C26_Witness ==
    /\ br_pc = "getch"
    /\ Len(listed) = 3
    /\ listed[TMUX].result = Missing
    /\ listed[SCREEN].result.kind = "sessions"
    /\ Len(sessions) = 1
    /\ sessions[1].program = "screen"

\* C27: as long as the far end has not changed, current_session is the number
\* of right-arrow presses less the number of left-arrow presses at page 0,
\* modulo len(sessions) + 1; with two sessions three presses of the right
\* arrow end on the home page again.
C27_Navigation ==
    (~far_changed /\ br_pc # "idle")
        => current_session = net % (Len(sessions) + 1)

C27_Witness ==
    /\ ~far_changed
    /\ Len(sessions) = 2
    /\ net = 3
    /\ presses = 3
    /\ current_session = 0
    /\ br_pc = "getch"

\* C28: q or Q ends show_sessions with None whatever the state; Enter at page
\* 0 ends it with "" (new session) on the home page and with the session at
\* current_session - 1 of the list of the last home frame otherwise.
C28_EnterAndQuit ==
    [][ (br_pc = "getch" /\ presses' = presses + 1)
          => /\ key' \in { "q", "Q" }
                  => (br_pc' = "returned" /\ br_result' = NoSession)
             /\ (key' = "ENTER" /\ page_number = 0)
                  => /\ br_pc' = "returned"
                     /\ br_result' = IF current_session = 0 THEN NewSession
                                     ELSE sessions[current_session]
      ]_vars

C28_Witness ==
    /\ br_pc = "returned"
    /\ key = "ENTER"
    /\ current_session = 2
    /\ br_result = sessions[2]
    /\ br_result.kind = "session"

\* C29: page_number is never negative; Page Down adds one, Page Up takes one
\* off only when it is positive; a debug frame that is drawn leaves it at most
\* ceil(len(lines) / page_lines); at page_number > 0 the arrows and Enter
\* leave current_session alone and do not end show_sessions.
C29_PageNumber ==
    [][ /\ page_number' >= 0
        /\ (br_pc = "getch" /\ presses' = presses + 1)
             => /\ key' = "KEY_NPAGE" => page_number' = page_number + 1
                /\ key' = "KEY_PPAGE"
                     => page_number' = IF page_number > 0 THEN page_number - 1 ELSE 0
                /\ (page_number > 0 /\ key' \in { "KEY_LEFT", "KEY_RIGHT", "ENTER" })
                     => /\ current_session' = current_session
                        /\ br_pc' = "frame"
                        /\ page_number' = page_number
        /\ (br_pc = "frame" /\ page_number > 0 /\ br_pc' = "getch")
             => \/ page_number' = 0
                \/ (page_number' - 1) * page_lines' < lines_len'
      ]_vars

\* Page Down made page_number positive and the frame drawn after it, with no
\* line to show, clamped it to 0
C29_Witness ==
    /\ br_pc = "getch"
    /\ key = "KEY_NPAGE"
    /\ presses = 3
    /\ page_number = 0
    /\ lines_len = 0

\* C37: in every state of the browser current_session is from 0 to
\* len(sessions), whatever keys are pressed and however the far end changes
\* between the refreshes of the home page.
C37_IndexInRange ==
    /\ 0 <= current_session
    /\ current_session <= Len(sessions)

\* the far end has lost its sessions while the second session of the list of
\* the last home frame is shown
C37_Witness ==
    /\ far_changed
    /\ far[TMUX].names = << >>
    /\ br_pc = "getch"
    /\ current_session = 2
    /\ Len(sessions) = 2
    /\ session = sessions[2]

\* C38: every frame that comes to drawing writes page_lines rows of content,
\* rows 0..page_lines-1, and the status line on row page_lines.
C38_RowsOfAFrame ==
    [][ (br_pc = "frame" /\ (br_pc' = "getch" \/ br_error' = "curses.error"))
          => /\ rows_drawn' = page_lines'
             /\ status_row' = Value(page_lines')
      ]_vars

(***************************************************************************)
(* TMuxWindow.capture (tmux_terminal.py:247-350)                           *)
(*                                                                         *)
(* A window is a sequence of rows, a row a sequence of cells, a cell one   *)
(* character.  The box-drawing characters are written with stand-ins.      *)
(***************************************************************************)
MaxWidth == 4
MaxHeight == 4
MaxPanes == 4
MaxCuts == 2

VR == "|"       \* BOX DRAWINGS LIGHT VERTICAL, U+2502
HR == "-"       \* BOX DRAWINGS LIGHT HORIZONTAL, U+2500
TEE_LEFT == "-|"    \* BOX DRAWINGS LIGHT VERTICAL AND LEFT, U+2524
TEE_RIGHT == "|-"   \* BOX DRAWINGS LIGHT VERTICAL AND RIGHT, U+251C
TEE_UP == "_|_"     \* BOX DRAWINGS LIGHT UP AND HORIZONTAL, U+2534
TEE_DOWN == "T"     \* BOX DRAWINGS LIGHT DOWN AND HORIZONTAL, U+252C
CROSS == "+"        \* BOX DRAWINGS LIGHT VERTICAL AND HORIZONTAL, U+253C
SPACE == " "

\* a pane as list_panes gives it (tmux_terminal.py:235-245, 255-258)
Pane(p_top, p_left, p_width, p_height) ==
    [pane_top |-> p_top, pane_left |-> p_left, pane_width |-> p_width,
     pane_height |-> p_height]

\* the layouts of tmux: a window is one pane, or it is cut in two by a rule
\* one cell wide, and so is each part
RECURSIVE Tilings(_, _, _, _, _)
Tilings(p_top, p_left, p_width, p_height, cuts) ==
    { { Pane(p_top, p_left, p_width, p_height) } }
    \cup
    (IF cuts = 0
     THEN {}
     ELSE (UNION { { a \cup b : a \in Tilings(p_top, p_left, x, p_height, cuts - 1),
                               b \in Tilings(p_top, p_left + x + 1, p_width - x - 1,
                                             p_height, cuts - 1) }
                   : x \in 1..(p_width - 2) })
          \cup
          (UNION { { a \cup b : a \in Tilings(p_top, p_left, p_width, y, cuts - 1),
                               b \in Tilings(p_top + y + 1, p_left, p_width,
                                             p_height - y - 1, cuts - 1) }
                   : y \in 1..(p_height - 2) }))

Windows ==
    { [window_width |-> w, window_height |-> h] :
        w \in 3..MaxWidth, h \in 3..MaxHeight }

Layouts(w) ==
    { t \in Tilings(0, 0, w.window_width, w.window_height, MaxCuts) :
        Cardinality(t) <= MaxPanes }

\* the orders list_panes may give the panes in
Orders(t) ==
    { o \in [1..Cardinality(t) -> t] :
        \A i, j \in 1..Cardinality(t) : i # j => o[i] # o[j] }

\* what capture-pane prints for a pane: pane_height lines, here all of one
\* character over the whole width (a letter, or the character of the
\* horizontal rule), or all empty
PaneChars == { "x", HR, "" }
pane_text(p, c) ==
    [y \in 1..p.pane_height |->
        IF c = "" THEN << >> ELSE [x \in 1..p.pane_width |-> c]]
Captured(o) ==
    { [i \in DOMAIN o |->
          [pane_top |-> o[i].pane_top, pane_left |-> o[i].pane_left,
           pane_width |-> o[i].pane_width, pane_height |-> o[i].pane_height,
           text |-> pane_text(o[i], cs[i])]]
      : cs \in [DOMAIN o -> PaneChars] }

InitCapture ==
    /\ Constructed([k \in {} |-> << >>], FALSE)
    /\ RelayIdle
    /\ sigwinch = "SIG_DFL"
    /\ stream = << >>
    /\ pos = 0
    /\ eio_reads = 0
    /\ CoIdle
    /\ RunIdle
    /\ ParseIdle
    /\ BrowserIdle
    /\ CloseIdle
    /\ window \in Windows
    /\ \E t \in Layouts(window) : \E o \in Orders(t) : panes \in Captured(o)
    /\ w_lines = NoneValue

\* s[a:b], s[a:] and c * n of Python, for a and b not negative
slice(s, a, b) ==
    IF Min({ a, Len(s) }) >= Min({ b, Len(s) })
    THEN << >>
    ELSE SubSeq(s, Min({ a, Len(s) }) + 1, Min({ b, Len(s) }))
slice_from(s, a) == slice(s, a, Len(s))
times(c, n) == [i \in 1..n |-> c]

\* str.ljust (tmux_terminal.py:260)
ljust(l, width) ==
    IF Len(l) >= width THEN l ELSE l \o times(SPACE, width - Len(l))

\* tmux_terminal.py:264 and 266: the pane ends short of the window
no_vr_right(p, w) == FALSE
has_hr_below(p, w) == p.pane_top + p.pane_height < w.window_height
has_vr_right(p, w) == p.pane_left + p.pane_width < w.window_width

\* tmux_terminal.py:259-267: the lines of a pane with its separators
p_lines_of(p, w) ==
    LET justified == [y \in DOMAIN p.text |-> ljust(p.text[y], p.pane_width)]
        with_hr == IF has_hr_below(p, w)
                   THEN Append(justified, times(HR, p.pane_width))
                   ELSE justified
    IN  IF has_vr_right(p, w)
        THEN [y \in DOMAIN with_hr |-> Append(with_hr[y], VR)]
        ELSE with_hr

\* tmux_terminal.py:268-271: the lines of a pane written over the window.
\* A tiling keeps pane_top + len(p_lines) within the window.
paint(lines, p, w) ==
    LET p_lines == p_lines_of(p, w)
    IN  [r \in DOMAIN lines |->
            LET y == r - 1 - p.pane_top
            IN  IF y >= 0 /\ y < Len(p_lines)
                THEN slice(lines[r], 0, p.pane_left)
                        \o p_lines[y + 1]
                        \o slice_from(lines[r], p.pane_left + p.pane_width + 1)
                ELSE lines[r]]

RECURSIVE paint_all(_, _, _, _)
paint_all(lines, ps, w, i) ==
    IF i > Len(ps) THEN lines ELSE paint_all(paint(lines, ps[i], w), ps, w, i + 1)

\* w_lines[y][x], counted from 0, a negative index counting from the end
cell(lines, y, x) ==
    LET row == lines[IF y < 0 THEN Len(lines) + y + 1 ELSE y + 1]
    IN  row[IF x < 0 THEN Len(row) + x + 1 ELSE x + 1]

\* w_lines[hr_y] = w_line[:vr_x] + joiner + w_line[vr_x + 1:]
joined(lines, hr_y, vr_x, joiner) ==
    [lines EXCEPT ![hr_y + 1] = slice(@, 0, vr_x) \o << joiner >>
                                   \o slice_from(@, vr_x + 1)]

\* tmux_terminal.py:292-298 and 307-313: the joiner on the <hr> above a pane
joiner_above(lines, hr_y, vr_x, tee) ==
    IF cell(lines, hr_y - 1, vr_x) = VR
    THEN IF cell(lines, hr_y - 1, vr_x + 1) = HR THEN CROSS ELSE tee
    ELSE TEE_DOWN

\* tmux_terminal.py:327-333 and 342-348: the joiner on the <hr> below a pane
joiner_below(lines, hr_y, vr_x, dx, tee) ==
    IF cell(lines, hr_y + 1, vr_x) = VR
    THEN IF cell(lines, hr_y + 1, vr_x + dx) = HR THEN CROSS ELSE tee
    ELSE TEE_UP

\* tmux_terminal.py:285-299
above_lhs(lines, p, w) ==
    IF p.pane_top > 0 /\ p.pane_left > 0
          /\ cell(lines, p.pane_top - 1, p.pane_left - 1) = HR
    THEN joined(lines, p.pane_top - 1, p.pane_left - 1,
                joiner_above(lines, p.pane_top - 1, p.pane_left - 1, TEE_RIGHT))
    ELSE lines

\* tmux_terminal.py:300-314
above_rhs(lines, p, w) ==
    IF p.pane_top > 0 /\ p.pane_left + p.pane_width < w.window_width
          /\ cell(lines, p.pane_top - 1, p.pane_left + p.pane_width) = HR
    THEN joined(lines, p.pane_top - 1, p.pane_left + p.pane_width,
                joiner_above(lines, p.pane_top - 1, p.pane_left + p.pane_width,
                             TEE_LEFT))
    ELSE lines

\* tmux_terminal.py:320-334
below_lhs(lines, p, w) ==
    IF p.pane_top + p.pane_height < w.window_height /\ p.pane_left > 0
          /\ cell(lines, p.pane_top + p.pane_height, p.pane_left - 1) = VR
    THEN joined(lines, p.pane_top + p.pane_height, p.pane_left - 1,
                joiner_below(lines, p.pane_top + p.pane_height,
                             p.pane_left - 1, -1, TEE_RIGHT))
    ELSE lines

\* tmux_terminal.py:335-349
below_rhs(lines, p, w) ==
    IF p.pane_top + p.pane_height < w.window_height
          /\ p.pane_left + p.pane_width < w.window_width
          /\ cell(lines, p.pane_top + p.pane_height, p.pane_left + p.pane_width) = VR
    THEN joined(lines, p.pane_top + p.pane_height, p.pane_left + p.pane_width,
                joiner_below(lines, p.pane_top + p.pane_height,
                             p.pane_left + p.pane_width, 1, TEE_LEFT))
    ELSE lines

\* tmux_terminal.py:275-349: the corners of one pane
merge(lines, p, w) ==
    below_rhs(below_lhs(above_rhs(above_lhs(lines, p, w), p, w), p, w), p, w)

RECURSIVE merge_all(_, _, _, _)
merge_all(lines, ps, w, i) ==
    IF i > Len(ps) THEN lines ELSE merge_all(merge(lines, ps[i], w), ps, w, i + 1)

\* TMuxWindow.capture (tmux_terminal.py:247-350)
capture(w, ps) ==
    LET blank == [r \in 1..w.window_height |-> times(SPACE, w.window_width)]
    IN  merge_all(paint_all(blank, ps, w, 1), ps, w, 1)

Capture ==
    /\ w_lines.none
    /\ w_lines' = Value(capture(window, panes))
    /\ UNCHANGED << window, panes, notCaptureVars >>

NextCapture == Capture

SpecCapture == InitCapture /\ [][NextCapture]_vars

Rules == { VR, HR, TEE_LEFT, TEE_RIGHT, TEE_UP, TEE_DOWN, CROSS }

\* the cell (y, x), counted from 0, lies in pane p
in_pane(p, y, x) ==
    /\ p.pane_top <= y /\ y < p.pane_top + p.pane_height
    /\ p.pane_left <= x /\ x < p.pane_left + p.pane_width

\* the cell (y, x) lies in the window and in no pane
between_panes(y, x) ==
    /\ 0 <= y /\ y < window.window_height
    /\ 0 <= x /\ x < window.window_width
    /\ \A i \in DOMAIN panes : ~in_pane(panes[i], y, x)

\* C32: for a window tiled by its panes, each pane's text being pane_height
\* lines of at most pane_width characters, capture returns window_height rows
\* of window_width characters; a cell of a pane holds what the pane printed
\* there (or the padding), a cell between panes holds one of the seven rule
\* characters.
C32_EveryCellPainted ==
    ~w_lines.none
        => /\ Len(w_lines.value) = window.window_height
           /\ \A r \in DOMAIN w_lines.value :
                /\ Len(w_lines.value[r]) = window.window_width
                /\ \A c \in DOMAIN w_lines.value[r] :
                     /\ between_panes(r - 1, c - 1)
                            => w_lines.value[r][c] \in Rules
                     /\ \A i \in DOMAIN panes :
                          in_pane(panes[i], r - 1, c - 1)
                              => w_lines.value[r][c] =
                                   ljust(panes[i].text[r - panes[i].pane_top],
                                         panes[i].pane_width)[c - panes[i].pane_left]

\* four panes, one of them with short lines, have been captured and a corner
\* has been merged
C32_Witness ==
    /\ ~w_lines.none
    /\ Len(panes) = 4
    /\ \E i \in DOMAIN panes : panes[i].text[1] = << >>
    /\ \E r \in DOMAIN w_lines.value : \E c \in DOMAIN w_lines.value[r] :
         w_lines.value[r][c] \in { TEE_LEFT, TEE_RIGHT, TEE_UP, TEE_DOWN, CROSS }

\* the sides of the cell (y, x) on which a rule goes on
rule_up(y, x) == between_panes(y - 1, x)
rule_down(y, x) == between_panes(y + 1, x)
rule_left(y, x) == between_panes(y, x - 1)
rule_right(y, x) == between_panes(y, x + 1)

\* C35: after the corners are merged, a cell between panes where the rules
\* go on to all four sides holds the cross, and a cell where they go on to
\* three sides only holds the T that points to those three sides.
C35_Junctions ==
    ~w_lines.none
        => \A r \in DOMAIN w_lines.value : \A c \in DOMAIN w_lines.value[r] :
             LET y == r - 1
                 x == c - 1
                 up == rule_up(y, x)
                 down == rule_down(y, x)
                 lft == rule_left(y, x)
                 rgt == rule_right(y, x)
                 held == w_lines.value[r][c]
             IN  between_panes(y, x)
                    => /\ (up /\ down /\ lft /\ rgt) => held = CROSS
                       /\ (up /\ down /\ lft /\ ~rgt) => held = TEE_LEFT
                       /\ (up /\ down /\ ~lft /\ rgt) => held = TEE_RIGHT
                       /\ (up /\ ~down /\ lft /\ rgt) => held = TEE_UP
                       /\ (~up /\ down /\ lft /\ rgt) => held = TEE_DOWN

(***************************************************************************)
(* close() against new_session()                                           *)
(*                                                                         *)
(* The scenario of test/test_terminals.py:32-53: a Runner thread calls     *)
(* terminal.new_session(), the main thread sleeps and calls                *)
(* terminal.close().  The test makes a local Executor (args.uphps = "");   *)
(* the remote Executor, whose jumper has a worker thread, is taken along.  *)
(***************************************************************************)
MaxPongs == 2

\* the positions of the Runner thread that are inside new_session()
Inside == { "ping", "pong", "follow_on", "wait", "close", "subprocess" }

\* Executor.__init__ (svty.py:176-188) and new_session (test_terminals.py:41-46)
InitClose ==
    /\ Constructed([k \in {} |-> << >>], FALSE)
    /\ RelayIdle
    /\ sigwinch = "SIG_DFL"
    /\ stream = << >>
    /\ pos = 0
    /\ eio_reads = 0
    /\ CoIdle
    /\ RunIdle
    /\ ParseIdle
    /\ BrowserIdle
    /\ CaptureIdle
    /\ t_uphps \in BOOLEAN
    /\ t_stopping = FALSE
    /\ t_jumper_stopping = FALSE
    /\ t_follow_on = IF t_uphps THEN FOLLOW_ON_PIO ELSE FOLLOW_ON_NONE
    /\ t_master_open = t_uphps
    /\ t_old_sigwinch \in (IF t_uphps THEN BOOLEAN ELSE { FALSE })
    /\ t_worker = IF t_uphps THEN "pio" ELSE "none"
    /\ t_child = IF t_uphps THEN "running" ELSE "none"
    /\ t_unread = 0
    /\ t_need \in (IF t_uphps THEN 1..MaxPongs ELSE { 0 })
    /\ runner_pc = "start"
    /\ closer_pc = "sleep"
    /\ t_error = ""

\* Runner.run (test_terminals.py:37-38), AbstractTerminal.call
\* (abstract_terminal.py:128-136) and the head of Executor.exec
\* (svty.py:190-197, 211-213): subprocess.call starts the program, or finds
\* none
RunnerCall ==
    /\ runner_pc = "start"
    /\ IF t_uphps
       THEN /\ runner_pc' = "ping"
            /\ UNCHANGED << t_child, t_error >>
       ELSE \E found \in BOOLEAN :
              IF found
              THEN /\ runner_pc' = "subprocess"
                   /\ t_child' = "running"
                   /\ UNCHANGED t_error
              ELSE /\ runner_pc' = "raised"
                   /\ t_error' = "FileNotFoundError"
                   /\ UNCHANGED t_child
    /\ UNCHANGED << t_uphps, t_stopping, t_jumper_stopping, t_follow_on,
                    t_master_open, t_old_sigwinch, t_worker, t_unread, t_need,
                    closer_pc, notCloseVars >>

\* SSHMultiPass.ping (jumper.py:347-353): os.write on the master
RunnerPing ==
    /\ runner_pc = "ping"
    /\ IF t_master_open
       THEN runner_pc' = "pong" /\ UNCHANGED t_error
       ELSE runner_pc' = "raised" /\ t_error' = "OSError"
    /\ UNCHANGED << t_uphps, t_stopping, t_jumper_stopping, t_follow_on,
                    t_master_open, t_old_sigwinch, t_worker, t_child, t_unread,
                    t_need, closer_pc, notCloseVars >>

\* the far end echoes a part of the command
ProgramEcho ==
    /\ t_child = "running"
    /\ t_master_open
    /\ runner_pc = "pong"
    /\ t_unread < t_need
    /\ t_unread' = t_unread + 1
    /\ UNCHANGED << t_uphps, t_stopping, t_jumper_stopping, t_follow_on,
                    t_master_open, t_old_sigwinch, t_worker, t_child, t_need,
                    runner_pc, closer_pc, t_error, notCloseVars >>

\* one pass of the loop of Executor.exec (svty.py:199-201): os.read on the
\* master (jumper.py:355-361) gives what is there, fails on a closed
\* descriptor or at the end of the child's output, and waits otherwise
RunnerPong ==
    /\ runner_pc = "pong"
    /\ \/ /\ t_master_open
          /\ t_unread > 0
          /\ t_unread' = t_unread - 1
          /\ t_need' = t_need - 1
          /\ runner_pc' = IF t_need = 1 THEN "follow_on" ELSE "pong"
          /\ UNCHANGED t_error
       \/ /\ ~t_master_open \/ (t_unread = 0 /\ t_child = "exited")
          /\ runner_pc' = "raised"
          /\ t_error' = "OSError"
          /\ UNCHANGED << t_unread, t_need >>
    /\ UNCHANGED << t_uphps, t_stopping, t_jumper_stopping, t_follow_on,
                    t_master_open, t_old_sigwinch, t_worker, t_child,
                    closer_pc, notCloseVars >>

\* svty.py:208 and SSHMultiPass.follow_on (jumper.py:363-377)
RunnerFollowOn ==
    /\ runner_pc = "follow_on"
    /\ t_follow_on' = FOLLOW_ON_HCI
    /\ runner_pc' = "wait"
    /\ UNCHANGED << t_uphps, t_stopping, t_jumper_stopping, t_master_open,
                    t_old_sigwinch, t_worker, t_child, t_unread, t_need,
                    closer_pc, t_error, notCloseVars >>

\* svty.py:209 and SSHMultiPass.wait (jumper.py:335-345): os.waitpid returns
\* once the child has exited
RunnerWait ==
    /\ runner_pc = "wait"
    /\ t_child = "exited"
    /\ runner_pc' = "close"
    /\ UNCHANGED << t_uphps, t_stopping, t_jumper_stopping, t_follow_on,
                    t_master_open, t_old_sigwinch, t_worker, t_child, t_unread,
                    t_need, closer_pc, t_error, notCloseVars >>

\* svty.py:210: Executor.close (svty.py:267-271) and SSHMultiPass.close
\* (jumper.py:329-333) called by the Runner thread, where signal.signal
\* raises ValueError
RunnerClose ==
    /\ runner_pc = "close"
    /\ t_stopping' = TRUE
    /\ t_jumper_stopping' = TRUE
    /\ IF t_old_sigwinch
       THEN runner_pc' = "raised" /\ t_error' = "ValueError"
       ELSE runner_pc' = "returned" /\ UNCHANGED t_error
    /\ UNCHANGED << t_uphps, t_follow_on, t_master_open, t_old_sigwinch,
                    t_worker, t_child, t_unread, t_need, closer_pc,
                    notCloseVars >>

\* svty.py:213: subprocess.call returns once the program has exited
RunnerLocalReturn ==
    /\ runner_pc = "subprocess"
    /\ t_child = "exited"
    /\ runner_pc' = "returned"
    /\ UNCHANGED << t_uphps, t_stopping, t_jumper_stopping, t_follow_on,
                    t_master_open, t_old_sigwinch, t_worker, t_child, t_unread,
                    t_need, closer_pc, t_error, notCloseVars >>

\* the program ends by itself: the user leaves the session, or the program
\* finds no terminal
ProgramExits ==
    /\ t_child = "running"
    /\ t_child' = "exited"
    /\ UNCHANGED << t_uphps, t_stopping, t_jumper_stopping, t_follow_on,
                    t_master_open, t_old_sigwinch, t_worker, t_unread, t_need,
                    runner_pc, closer_pc, t_error, notCloseVars >>

\* the child of the jumper loses its terminal when the master is closed
ProgramHangup ==
    /\ t_uphps
    /\ t_child = "running"
    /\ ~t_master_open
    /\ t_child' = "exited"
    /\ UNCHANGED << t_uphps, t_stopping, t_jumper_stopping, t_follow_on,
                    t_master_open, t_old_sigwinch, t_worker, t_unread, t_need,
                    runner_pc, closer_pc, t_error, notCloseVars >>

\* SSHMultiPass.run (jumper.py:283-287): the worker leaves the loop of
\* FOLLOW_ON_PIO for the loop of FOLLOW_ON_HCI
WorkerToHci ==
    /\ t_worker = "pio"
    /\ ~t_jumper_stopping
    /\ t_follow_on = FOLLOW_ON_HCI
    /\ t_worker' = "hci"
    /\ UNCHANGED << t_uphps, t_stopping, t_jumper_stopping, t_follow_on,
                    t_master_open, t_old_sigwinch, t_child, t_unread, t_need,
                    runner_pc, closer_pc, t_error, notCloseVars >>

\* SSHMultiPass.run (jumper.py:283-327): the worker sees stopping, leaves
\* its loops and closes the master
WorkerStops ==
    /\ t_worker \in { "pio", "hci" }
    /\ t_jumper_stopping
    /\ t_worker' = "stopped"
    /\ t_master_open' = FALSE
    /\ UNCHANGED << t_uphps, t_stopping, t_jumper_stopping, t_follow_on,
                    t_old_sigwinch, t_child, t_unread, t_need, runner_pc,
                    closer_pc, t_error, notCloseVars >>

\* test_terminals.py:50-52: AbstractTerminal.close (abstract_terminal.py:155-161),
\* Executor.close (svty.py:267-271) and, for a remote Executor,
\* SSHMultiPass.close (jumper.py:329-333), called by the main thread once the
\* Runner thread is under way
TerminalClose ==
    /\ closer_pc = "sleep"
    /\ runner_pc # "start"
    /\ t_stopping' = TRUE
    /\ t_jumper_stopping' = (t_jumper_stopping \/ t_uphps)
    /\ closer_pc' = "returned"
    /\ UNCHANGED << t_uphps, t_follow_on, t_master_open, t_old_sigwinch,
                    t_worker, t_child, t_unread, t_need, runner_pc, t_error,
                    notCloseVars >>

NextClose ==
    \/ RunnerCall
    \/ RunnerPing
    \/ ProgramEcho
    \/ RunnerPong
    \/ RunnerFollowOn
    \/ RunnerWait
    \/ RunnerClose
    \/ RunnerLocalReturn
    \/ ProgramExits
    \/ ProgramHangup
    \/ WorkerToHci
    \/ WorkerStops
    \/ TerminalClose

SpecClose == InitClose /\ [][NextClose]_vars

\* every thread goes on, the far end answers while it runs, and a child
\* that has lost its terminal exits; nothing makes a running program end by
\* itself
FairnessClose ==
    /\ WF_vars(RunnerCall)
    /\ WF_vars(RunnerPing)
    /\ WF_vars(ProgramEcho)
    /\ WF_vars(RunnerPong)
    /\ WF_vars(RunnerFollowOn)
    /\ WF_vars(RunnerWait)
    /\ WF_vars(RunnerClose)
    /\ WF_vars(RunnerLocalReturn)
    /\ WF_vars(ProgramHangup)
    /\ WF_vars(WorkerToHci)
    /\ WF_vars(WorkerStops)
    /\ WF_vars(TerminalClose)

FairSpecClose == SpecClose /\ FairnessClose

\* C33: close() called while the Runner thread is inside new_session() does
\* not raise, and once it has returned the new_session() call comes to an
\* end, so that the Runner thread terminates.
C33_CloseEndsNewSession ==
    /\ [](closer_pc # "raised")
    /\ (closer_pc = "returned" /\ runner_pc \in Inside)
          ~> (runner_pc \in { "returned", "raised" })

====
